---- MODULE Spec2Model ----
(***************************************************************************)
(* Event-driven depth-first traversal (tree-scoped and graph-scoped) and   *)
(* Tarjan's strongly connected components of the graph library, as state   *)
(* machines driven by next() calls.                                        *)
(*                                                                         *)
(* Conventions.  Option<T>: None is <<>>, Some(x) is <<x>>.  A Vec used as *)
(* a stack is a sequence whose last element is the top.  The VecDeque      *)
(* output_queue is a sequence whose first element is the front.  A HashSet *)
(* is a set, a HashMap a function on its key set.  VertexId(i) is i.       *)
(***************************************************************************)
EXTENDS Naturals, Sequences, FiniteSets

\* Largest vertex_count and longest edge list the graphs are drawn from.
MaxVertices == 3
MaxEdges == 3
\* How many next() calls a caller makes after the iterator has returned None.
MaxCallsAfterEnd == 2

VARIABLES
    object,                 \* which iterator was constructed: "tree", "graph" or "scc"
    graph,                  \* the immutable Graph {vertices, edges, out_index}
    start,                  \* the start vertex given to tree::DepthFirst::on
    enumeration,            \* tree::DepthFirst {stack, explored, output_queue}
    vertices,               \* graph::DepthFirst.vertices: how many vertices the iterator has yielded
    explored,               \* graph::DepthFirst.explored
    unfinished_components,  \* SCC.unfinished_components: Stack {stack, vertices, next_vertex_index}
    panicked,               \* a panic!/unwrap on None was hit
    trace,                  \* history: the DFS events returned so far (under SCC: consumed so far)
    components,             \* history: the components SCC::next returned so far
    exhausted,              \* history: the last next() returned None
    cancelled,              \* history: vertices whose frame a drop_current_vertex call marked
    trees,                  \* history: the trees the graph-scoped traversal started
    calls_after_end,        \* history: next() calls made after None was returned
    depth,                  \* history: nesting of self.next() in the last call, per layer
    given,                  \* the arguments the object is constructed from
    call,                   \* the last call of a Graph or UnionFind method: {op, args, result}
    union_find,             \* UnionFind.list
    connected,              \* history: the classes of the vertices united so far
    steps                   \* history: what SCC::next did with each entry of the trace

vars == <<object, graph, start, enumeration, vertices, explored,
          unfinished_components, panicked, trace, components, exhausted,
          cancelled, trees, calls_after_end, depth, given, call, union_find,
          connected, steps>>

\* The variables of the Graph and UnionFind method calls.
callVars == <<given, call, union_find, connected>>

None == <<>>
Some(x) == <<x>>

Last(s) == s[Len(s)]

\* The element of a one-element set.  Only({F(x) : x \in {e}}) is F(e) with e
\* evaluated once, before F reads it.
Only(S) == CHOOSE x \in S : TRUE
Front(s) == SubSeq(s, 1, Len(s) - 1)

Max(a, b) == IF a >= b THEN a ELSE b

\* No method has been called yet.
NoCall == [op |-> "none", args |-> <<>>, result |-> None]

\* The nesting of self.next() inside one external next() call, for the
\* tree-scoped and the graph-scoped layer: 0 when next() returns without
\* calling itself.
NoDepth == [tree |-> 0, graph |-> 0]

(***************************************************************************)
(* Graph                                                                   *)
(***************************************************************************)

\* A variant of the out index that puts each new neighbour in front.
RECURSIVE OutIndexOf_prepending(_, _, _)
OutIndexOf_prepending(edges, v, k) ==
    IF k = 0 THEN <<>>
    ELSE IF edges[k][1] = v
         THEN <<edges[k][2]>> \o OutIndexOf_prepending(edges, v, k - 1)
         ELSE OutIndexOf_prepending(edges, v, k - 1)

\* The out-neighbours of vertex v pushed while mapping over the first k edges.
RECURSIVE OutIndexOf(_, _, _)
OutIndexOf(edges, v, k) ==
    IF k = 0 THEN <<>>
    ELSE IF edges[k][1] = v
         THEN Append(OutIndexOf(edges, v, k - 1), edges[k][2])
         ELSE OutIndexOf(edges, v, k - 1)

\* A variant of Graph::from that checks the source of an edge only.
GraphFrom_checking_source_only(vertex_count, edges) ==
    IF \A k \in 1..Len(edges) : vertex_count > edges[k][1]
    THEN [ok |-> TRUE,
          value |-> [vertices |-> [i \in 1..vertex_count |-> i - 1],
                     edges |-> edges,
                     out_index |-> [i \in 1..vertex_count |->
                                       OutIndexOf(edges, i - 1, Len(edges))]]]
    ELSE [ok |-> FALSE, value |-> "Dangling edges are not allowed"]

\* Graph::from: Err on a dangling edge, else the graph with its out index.
\* vertices[i + 1] is VertexId(i); out_index[i + 1] is the list of VertexId(i).
GraphFrom(vertex_count, edges) ==
    IF \A k \in 1..Len(edges) :
           vertex_count > edges[k][1] /\ vertex_count > edges[k][2]
    THEN [ok |-> TRUE,
          value |-> [vertices |-> [i \in 1..vertex_count |-> i - 1],
                     edges |-> edges,
                     out_index |-> [i \in 1..vertex_count |->
                                       OutIndexOf(edges, i - 1, Len(edges))]]]
    ELSE [ok |-> FALSE, value |-> "Dangling edges are not allowed"]

\* Graph::contains, and a variant that compares with >=.
contains_inclusive(g, vertex) == Len(g.vertices) >= vertex

contains(g, vertex) == Len(g.vertices) > vertex

\* Graph::vertices: the items of the returned iterator, in its order.
Graph_vertices(g) == g.vertices

\* Graph::out_neighbors: the slice the returned iterator walks over.
out_neighbors(g, vertex) == g.out_index[vertex + 1]

\* Graph::out_neighbors with its unwrap: out_index.get(vertex.0) is None
\* beyond the last vertex, and the unwrap then panics.
out_neighbors_unwrap(g, vertex) ==
    IF vertex < Len(g.out_index)
    THEN [panic |-> FALSE, value |-> out_neighbors(g, vertex)]
    ELSE [panic |-> TRUE, value |-> <<>>]

(***************************************************************************)
(* DFSEntry                                                                *)
(***************************************************************************)

BeginVertex(v) == <<"BeginVertex", v>>
BeginEdge(u, v) == <<"BeginEdge", u, v>>
EndVertex(v) == <<"EndVertex", v>>
EndEdge(u, v) == <<"EndEdge", u, v>>

(***************************************************************************)
(* Tree-scoped detailed depth-first traversal                              *)
(***************************************************************************)

\* Vertex::from.  neighbours is the number of items the boxed iterator over
\* out_neighbors(vertex) has yielded.
Vertex_from(vertex) ==
    [id |-> vertex, current_neighbour |-> None, neighbours |-> 0, dropped |-> FALSE]

\* Vertex::next_neighbour: current_neighbour becomes neighbours.next().
next_neighbour_skipping_repeats(g, vertex) ==
    LET out == out_neighbors(g, vertex.id)
        fresh == {k \in (vertex.neighbours + 1)..Len(out) :
                     \A j \in 1..(k - 1) : out[j] # out[k]}
    IN IF fresh # {}
       THEN LET k == CHOOSE x \in fresh : \A y \in fresh : x <= y
            IN [vertex EXCEPT !.current_neighbour = Some(out[k]), !.neighbours = k]
       ELSE [vertex EXCEPT !.current_neighbour = None, !.neighbours = Len(out)]

\* A variant of next_neighbour that yields the first neighbour only.
next_neighbour_only_first(g, vertex) ==
    LET out == out_neighbors(g, vertex.id)
    IN IF vertex.neighbours = 0 /\ Len(out) > 0
       THEN [vertex EXCEPT !.current_neighbour = Some(out[1]), !.neighbours = 1]
       ELSE [vertex EXCEPT !.current_neighbour = None]

next_neighbour(g, vertex) ==
    LET out == out_neighbors(g, vertex.id)
    IN IF vertex.neighbours < Len(out)
       THEN [vertex EXCEPT !.current_neighbour = Some(out[vertex.neighbours + 1]),
                           !.neighbours = @ + 1]
       ELSE [vertex EXCEPT !.current_neighbour = None]

\* A variant of Vertex::drop that also forgets the neighbour the frame is at.
Vertex_drop_forgetting_neighbour(vertex) ==
    [vertex EXCEPT !.dropped = TRUE, !.current_neighbour = None]

\* Vertex::drop
Vertex_drop(vertex) == [vertex EXCEPT !.dropped = TRUE]

\* A variant of on that does not ask whether the graph contains the start.
TreeOn_without_check(g, s) ==
    [stack |-> <<Vertex_from(s)>>, explored |-> {}, output_queue |-> <<>>]

\* tree::DepthFirst::on
TreeOn(g, s) ==
    IF contains(g, s)
    THEN [stack |-> <<Vertex_from(s)>>, explored |-> {}, output_queue |-> <<>>]
    ELSE [stack |-> <<>>, explored |-> {}, output_queue |-> <<>>]

\* A variant of drop_current_vertex that takes the top frame off the stack.
drop_current_vertex_popping(t) ==
    IF t.stack # <<>> THEN [t EXCEPT !.stack = Front(t.stack)] ELSE t

\* tree::DepthFirst::drop_current_vertex
drop_current_vertex(t) ==
    IF t.stack # <<>>
    THEN [t EXCEPT !.stack = Append(Front(t.stack), Vertex_drop(Last(t.stack)))]
    ELSE t

\* tree::DepthFirst::begin_vertex: the entry, and the explored set afterwards.
begin_vertex(t, vertex) ==
    IF vertex \in t.explored
    THEN [out |-> None, explored |-> t.explored]
    ELSE [out |-> Some(BeginVertex(vertex)), explored |-> t.explored \cup {vertex}]

\* tree::DepthFirst::end_previous_edge
end_previous_edge_never(vertex) == None

end_previous_edge(vertex) ==
    IF vertex.current_neighbour # None
    THEN Some(EndEdge(vertex.id, vertex.current_neighbour[1]))
    ELSE None

\* A variant of end_vertex that does not look at the dropped flag.
end_vertex_ignoring_dropped(vertex) ==
    IF vertex.current_neighbour = None THEN Some(EndVertex(vertex.id)) ELSE None

\* tree::DepthFirst::end_vertex
end_vertex(vertex) ==
    IF vertex.current_neighbour = None /\ ~vertex.dropped
    THEN Some(EndVertex(vertex.id))
    ELSE None

\* A variant of begin_next_edge that pushes a frame for the neighbour without
\* looking at the explored set.
begin_next_edge_always_pushing(t_explored, stack, vertex, current_neighbour) ==
    IF current_neighbour # None
    THEN [out |-> Some(BeginEdge(vertex, current_neighbour[1])),
          stack |-> Append(stack, Vertex_from(current_neighbour[1]))]
    ELSE [out |-> None, stack |-> stack]

\* A variant of begin_next_edge that passes over an edge from the vertex to
\* itself.
begin_next_edge_skipping_self_loops(t_explored, stack, vertex, current_neighbour) ==
    IF current_neighbour # None /\ current_neighbour[1] # vertex
    THEN LET neighbour == current_neighbour[1]
         IN [out |-> Some(BeginEdge(vertex, neighbour)),
             stack |-> IF neighbour \notin t_explored
                       THEN Append(stack, Vertex_from(neighbour))
                       ELSE stack]
    ELSE [out |-> None, stack |-> stack]

\* tree::DepthFirst::begin_next_edge: the entry, and the stack afterwards.
begin_next_edge(t_explored, stack, vertex, current_neighbour) ==
    IF current_neighbour # None
    THEN LET neighbour == current_neighbour[1]
         IN [out |-> Some(BeginEdge(vertex, neighbour)),
             stack |-> IF neighbour \notin t_explored
                       THEN Append(stack, Vertex_from(neighbour))
                       ELSE stack]
    ELSE [out |-> None, stack |-> stack]

\* output_queue.push_front(x) for Some(x), nothing for None.
push_front(queue, entry) == entry \o queue

\* output_queue.pop_back() on a non-empty queue, and a variant that takes the
\* entry from the end it was pushed to.
pop_back_at_front(queue) == [queue |-> Tail(queue), out |-> Some(Head(queue))]

pop_back(queue) == [queue |-> Front(queue), out |-> Some(Last(queue))]

\* A variant of tree::DepthFirst::next that ends with output_queue.pop_back()
\* instead of self.next(): it returns None when the frame it has popped queued
\* nothing, although the stack still holds frames.
TreeNextOp_without_retry(g, t) ==
    IF t.output_queue # <<>>
    THEN [st |-> [t EXCEPT !.output_queue = Front(@)],
          out |-> Some(Last(t.output_queue)), depth |-> 0]
    ELSE IF t.stack = <<>>
    THEN [st |-> t, out |-> None, depth |-> 0]
    ELSE
      LET vertex == Last(t.stack)
          popped == Front(t.stack)
          begun == begin_vertex(t, vertex.id)
      IN IF begun.out # None
         THEN [st |-> [t EXCEPT !.explored = begun.explored], out |-> begun.out,
               depth |-> 0]
         ELSE
           LET q1 == push_front(t.output_queue, end_previous_edge(vertex))
               updated_vertex == next_neighbour(g, vertex)
               ended == end_vertex(updated_vertex)
               q2 == push_front(q1, ended)
               stack2 == IF ended = None /\ ~updated_vertex.dropped
                         THEN Append(popped, updated_vertex)
                         ELSE popped
               edge == IF ~updated_vertex.dropped
                       THEN begin_next_edge(t.explored, stack2, updated_vertex.id,
                                            updated_vertex.current_neighbour)
                       ELSE [out |-> None, stack |-> stack2]
               q3 == push_front(q2, edge.out)
           IN [st |-> [stack |-> edge.stack, explored |-> t.explored,
                       output_queue |-> IF q3 = <<>> THEN q3 ELSE Front(q3)],
               out |-> IF q3 = <<>> THEN None ELSE Some(Last(q3)),
               depth |-> 0]

\* A variant of next that queues the BeginVertex entry like the other
\* entries and goes on, instead of returning it directly.
RECURSIVE TreeNextOp_queueing_begin(_, _)
TreeNextOp_queueing_begin(g, t) ==
    IF t.output_queue # <<>>
    THEN [st |-> [t EXCEPT !.output_queue = pop_back(@).queue],
          out |-> pop_back(t.output_queue).out, depth |-> 0]
    ELSE IF t.stack = <<>>
    THEN [st |-> t, out |-> None, depth |-> 0]
    ELSE
      LET vertex == Last(t.stack)
          popped == Front(t.stack)
          begun == begin_vertex(t, vertex.id)
          q0 == push_front(t.output_queue, begun.out)
          q1 == push_front(q0, end_previous_edge(vertex))
          updated_vertex == next_neighbour(g, vertex)
          ended == end_vertex(updated_vertex)
          q2 == push_front(q1, ended)
          stack2 == IF ended = None /\ ~updated_vertex.dropped
                    THEN Append(popped, updated_vertex)
                    ELSE popped
          edge == IF ~updated_vertex.dropped
                  THEN begin_next_edge(begun.explored, stack2, updated_vertex.id,
                                       updated_vertex.current_neighbour)
                  ELSE [out |-> None, stack |-> stack2]
      IN Only({Only({[inner EXCEPT !.depth = @ + 1] :
                       inner \in {TreeNextOp_queueing_begin(g, t2)}}) :
                  t2 \in {[stack |-> edge.stack,
                           explored |-> begun.explored,
                           output_queue |-> push_front(q2, edge.out)]}})

\* tree::DepthFirst::next (Iterator): the state afterwards, the returned
\* Option<DFSEntry> and how deep the trailing self.next() nested.
RECURSIVE TreeNextOp(_, _)
TreeNextOp(g, t) ==
    IF t.output_queue # <<>>
    THEN [st |-> [t EXCEPT !.output_queue = pop_back(@).queue],
          out |-> pop_back(t.output_queue).out, depth |-> 0]
    ELSE IF t.stack = <<>>
    THEN [st |-> t, out |-> None, depth |-> 0]
    ELSE
      LET vertex == Last(t.stack)
          popped == Front(t.stack)
          begun == begin_vertex(t, vertex.id)
      IN IF begun.out # None
         THEN [st |-> [t EXCEPT !.explored = begun.explored], out |-> begun.out,
               depth |-> 0]
         ELSE
           LET q1 == push_front(t.output_queue, end_previous_edge(vertex))
               updated_vertex == next_neighbour(g, vertex)
               ended == end_vertex(updated_vertex)
               q2 == push_front(q1, ended)
               stack2 == IF ended = None /\ ~updated_vertex.dropped
                         THEN Append(popped, updated_vertex)
                         ELSE popped
               edge == IF ~updated_vertex.dropped
                       THEN begin_next_edge(t.explored, stack2, updated_vertex.id,
                                            updated_vertex.current_neighbour)
                       ELSE [out |-> None, stack |-> stack2]
           IN Only({Only({[inner EXCEPT !.depth = @ + 1] :
                            inner \in {TreeNextOp(g, t2)}}) :
                       t2 \in {[stack |-> edge.stack,
                                explored |-> t.explored,
                                output_queue |-> push_front(q2, edge.out)]}})

(***************************************************************************)
(* Graph-scoped detailed depth-first traversal                             *)
(* Its state d is {enumeration, vertices, explored}.                       *)
(***************************************************************************)

\* graph::DepthFirst::on: the tree starts at the first vertex, or at
\* VertexId(0) when the graph has none; the vertices iterator has then been
\* advanced once.
GraphOn(g) ==
    IF Len(g.vertices) = 0
    THEN [enumeration |-> TreeOn(g, 0), vertices |-> 0, explored |-> {}]
    ELSE [enumeration |-> TreeOn(g, g.vertices[1]), vertices |-> 1, explored |-> {}]

\* graph::DepthFirst::start_new_tree, and a variant that replaces the outer
\* explored set by the one of the old tree.
start_new_tree_replacing(g, d, vertex) ==
    [d EXCEPT !.enumeration = TreeOn(g, vertex),
              !.explored = d.enumeration.explored]

start_new_tree(g, d, vertex) ==
    [d EXCEPT !.enumeration = TreeOn(g, vertex),
              !.explored = @ \cup d.enumeration.explored]

\* Variants of make_sure_that_entry_was_not_already_given: one that lets
\* every entry through, one that suppresses the entry without dropping the
\* vertex.
make_sure_never_suppressing(d, entry) == [st |-> d, out |-> Some(entry)]

make_sure_without_drop(d, entry) ==
    IF entry[1] = "BeginVertex" /\ entry[2] \in d.explored
    THEN [st |-> d, out |-> None]
    ELSE [st |-> d, out |-> Some(entry)]

\* graph::DepthFirst::make_sure_that_entry_was_not_already_given: the state
\* afterwards and the entry, or None for a suppressed BeginVertex.
make_sure_that_entry_was_not_already_given(d, entry) ==
    IF entry[1] = "BeginVertex" /\ entry[2] \in d.explored
    THEN [st |-> [d EXCEPT !.enumeration = drop_current_vertex(@)], out |-> None]
    ELSE [st |-> d, out |-> Some(entry)]

\* The result of a nested self.next() of the graph-scoped traversal, seen from
\* the call that made it after a tree call that nested tree_depth deep.
Nested(inner, tree_depth) ==
    [inner EXCEPT !.depth = [tree |-> Max(@.tree, tree_depth), graph |-> @.graph + 1]]

\* graph::DepthFirst::next (Iterator).  started collects, for every
\* start_new_tree of this call, the root and whether it was explored already.
RECURSIVE GraphNextOp(_, _, _)
GraphNextOp(g, d, started) ==
    Only({
      LET d1 == [d EXCEPT !.enumeration = r.st]
      IN IF r.out # None
         THEN LET m == make_sure_that_entry_was_not_already_given(d1, r.out[1])
              IN IF m.out # None
                 THEN [st |-> m.st, out |-> m.out, started |-> started,
                       depth |-> [tree |-> r.depth, graph |-> 0]]
                 ELSE Only({Only({Nested(inner, r.depth) :
                                    inner \in {GraphNextOp(g, d2, started)}}) :
                              d2 \in {m.st}})
         ELSE IF d1.vertices < Len(g.vertices)
         THEN LET v == g.vertices[d1.vertices + 1]
              IN Only({Only({Only({Nested(inner, r.depth) :
                                       inner \in {GraphNextOp(g, d2, s2)}}) :
                               s2 \in {Append(started,
                                              [root |-> v,
                                               known |-> v \in d1.explored
                                                         \/ v \in d1.enumeration.explored,
                                               explored |-> d2.explored])}}) :
                         d2 \in {start_new_tree(g, [d1 EXCEPT !.vertices = @ + 1], v)}})
         ELSE [st |-> d1, out |-> None, started |-> started,
               depth |-> [tree |-> r.depth, graph |-> 0]]
      : r \in {TreeNextOp(g, d.enumeration)}})

(***************************************************************************)
(* Tarjan's strongly connected components                                  *)
(* The Stack k is {stack, vertices, next_vertex_index}; a Vertex of the    *)
(* map is {index, low_link}.                                               *)
(***************************************************************************)

\* Stack::new
StackNew == [stack |-> <<>>, vertices |-> <<>>, next_vertex_index |-> 0]

Min(a, b) == IF a <= b THEN a ELSE b

\* The map m with key k set to value x (HashMap::insert).
MapInsert(m, k, x) == [j \in (DOMAIN m) \cup {k} |-> IF j = k THEN x ELSE m[j]]

\* The map m without key k (HashMap::remove).
MapRemove(m, k) == [j \in (DOMAIN m) \ {k} |-> m[j]]

\* A variant of Stack::push that numbers a vertex by the height of the stack.
Stack_push_numbering_by_height(k, vertex) ==
    [stack |-> Append(k.stack, vertex),
     vertices |-> MapInsert(k.vertices, vertex,
                            [index |-> Len(k.stack), low_link |-> Len(k.stack)]),
     next_vertex_index |-> k.next_vertex_index + 1]

\* A variant of Stack::push that starts every low_link at the first index.
Stack_push_linking_to_first(k, vertex) ==
    [stack |-> Append(k.stack, vertex),
     vertices |-> MapInsert(k.vertices, vertex,
                            [index |-> k.next_vertex_index, low_link |-> 0]),
     next_vertex_index |-> k.next_vertex_index + 1]

\* Stack::push
Stack_push(k, vertex) ==
    [stack |-> Append(k.stack, vertex),
     vertices |-> MapInsert(k.vertices, vertex,
                            [index |-> k.next_vertex_index,
                             low_link |-> k.next_vertex_index]),
     next_vertex_index |-> k.next_vertex_index + 1]

\* Variants of Stack::update_with_minimum: one that takes the minimum with
\* the index of update_id instead of its low_link, one that takes a vertex
\* without an entry for a vertex of low_link 0.
update_with_minimum_of_index(k, vertex_id, update_id) ==
    IF update_id \in DOMAIN k.vertices
    THEN IF vertex_id \in DOMAIN k.vertices
         THEN [panic |-> FALSE,
               st |-> [k EXCEPT !.vertices =
                          MapInsert(@, vertex_id,
                                    [index |-> k.vertices[vertex_id].index,
                                     low_link |-> Min(k.vertices[vertex_id].low_link,
                                                      k.vertices[update_id].index)])]]
         ELSE [panic |-> TRUE, st |-> k]
    ELSE [panic |-> FALSE, st |-> k]

update_with_minimum_defaulting(k, vertex_id, update_id) ==
    IF vertex_id \in DOMAIN k.vertices
    THEN [panic |-> FALSE,
          st |-> [k EXCEPT !.vertices =
                     MapInsert(@, vertex_id,
                               [index |-> k.vertices[vertex_id].index,
                                low_link |-> Min(k.vertices[vertex_id].low_link,
                                                 IF update_id \in DOMAIN k.vertices
                                                 THEN k.vertices[update_id].low_link
                                                 ELSE 0)])]]
    ELSE [panic |-> TRUE, st |-> k]

\* Stack::update_with_minimum: the stack afterwards; panic when the unwrap of
\* vertex_id's entry fails.
update_with_minimum(k, vertex_id, update_id) ==
    IF update_id \in DOMAIN k.vertices
    THEN IF vertex_id \in DOMAIN k.vertices
         THEN [panic |-> FALSE,
               st |-> [k EXCEPT !.vertices =
                          MapInsert(@, vertex_id,
                                    [index |-> k.vertices[vertex_id].index,
                                     low_link |-> Min(k.vertices[vertex_id].low_link,
                                                      k.vertices[update_id].low_link)])]]
         ELSE [panic |-> TRUE, st |-> k]
    ELSE [panic |-> FALSE, st |-> k]

\* Vertex::is_root, and a variant that takes every vertex for a root.
Vertex_is_root_always(vertex) == TRUE

Vertex_is_root(vertex) == vertex.index = vertex.low_link

\* Stack::is_root: panic when the unwrap of the entry fails.
is_root(k, vertex_id) ==
    IF vertex_id \in DOMAIN k.vertices
    THEN [panic |-> FALSE, value |-> Vertex_is_root(k.vertices[vertex_id])]
    ELSE [panic |-> TRUE, value |-> FALSE]

\* Variants of the loop of Stack::pop_until: one that pops a single vertex
\* instead of looping, one that leaves the popped vertices in the map.
PopLoop_single_pop(k, vertex, component) ==
    IF k.stack = <<>>
    THEN [panic |-> TRUE, st |-> k, component |-> component]
    ELSE [panic |-> FALSE,
          st |-> [k EXCEPT !.stack = Front(@), !.vertices = MapRemove(@, Last(k.stack))],
          component |-> component \cup {Last(k.stack)}]

RECURSIVE PopLoop_keeping_entries(_, _, _)
PopLoop_keeping_entries(k, vertex, component) ==
    IF k.stack = <<>>
    THEN [panic |-> TRUE, st |-> k, component |-> component]
    ELSE LET v == Last(k.stack)
             k1 == [k EXCEPT !.stack = Front(@)]
         IN IF v = vertex
            THEN [panic |-> FALSE, st |-> k1, component |-> component \cup {v}]
            ELSE PopLoop_keeping_entries(k1, vertex, component \cup {v})

\* The loop of Stack::pop_until, with the component collected so far.
RECURSIVE PopLoop(_, _, _)
PopLoop(k, vertex, component) ==
    IF k.stack = <<>>
    THEN [panic |-> TRUE, st |-> k, component |-> component]
    ELSE LET v == Last(k.stack)
             k1 == [k EXCEPT !.stack = Front(@), !.vertices = MapRemove(@, v)]
         IN IF v = vertex
            THEN [panic |-> FALSE, st |-> k1, component |-> component \cup {v}]
            ELSE PopLoop(k1, vertex, component \cup {v})

\* Stack::pop_until
pop_until(k, vertex) == PopLoop(k, vertex, {})

\* SCC::on
SccOn(g) == [dfs |-> GraphOn(g), unfinished_components |-> StackNew]

\* The match of SCC::next on one DFS entry: the stack afterwards, the
\* component returned (returned tells whether the call returns here), and
\* panic when an unwrap or the pop fails.
SccStep(k, next) ==
    LET goes_on(k2) == [st |-> k2, out |-> None, panic |-> FALSE, returned |-> FALSE]
        panics(k2) == [st |-> k2, out |-> None, panic |-> TRUE, returned |-> FALSE]
    IN CASE next[1] = "BeginVertex" -> goes_on(Stack_push(k, next[2]))
         [] next[1] = "EndEdge" ->
              LET u == update_with_minimum(k, next[2], next[3])
              IN IF u.panic THEN panics(k) ELSE goes_on(u.st)
         [] next[1] = "EndVertex" ->
              LET root == is_root(k, next[2])
              IN IF root.panic
                 THEN panics(k)
                 ELSE IF root.value
                 THEN LET p == pop_until(k, next[2])
                      IN IF p.panic
                         THEN panics(p.st)
                         ELSE [st |-> p.st, out |-> Some(p.component),
                               panic |-> FALSE, returned |-> TRUE]
                 ELSE goes_on(k)
         [] OTHER -> goes_on(k)

\* A variant of SCC::next that reads one entry ahead before it returns a
\* component.
RECURSIVE SccNextOp_reading_ahead(_, _, _, _)
SccNextOp_reading_ahead(g, c, consumed, started) ==
    Only({
      LET k == c.unfinished_components
          done(dfs, k2, out, panic, read, trees_started) ==
              [st |-> [dfs |-> dfs, unfinished_components |-> k2],
               out |-> out, panic |-> panic,
               consumed |-> read, started |-> trees_started,
               depth |-> r.depth]
          loop(k2) ==
              Only({Only({[later EXCEPT !.depth = [tree |-> Max(@.tree, r.depth.tree),
                                                  graph |-> Max(@.graph, r.depth.graph)]] :
                            later \in {SccNextOp_reading_ahead(g, c2, n2, r.started)}}) :
                      c2 \in {[dfs |-> r.st, unfinished_components |-> k2]},
                      n2 \in {consumed \o r.out}})
          ahead(s) ==
              Only({IF peek.out = None
                    THEN done(peek.st, s.st, s.out, FALSE, consumed \o r.out, peek.started)
                    ELSE done(peek.st, SccStep(s.st, peek.out[1]).st, s.out, FALSE,
                              consumed \o r.out \o peek.out, peek.started)
                    : peek \in {GraphNextOp(g, r.st, r.started)}})
      IN IF r.out = None
         THEN done(r.st, k, None, FALSE, consumed, r.started)
         ELSE Only({IF s.panic
                    THEN done(r.st, s.st, s.out, TRUE, consumed \o r.out, r.started)
                    ELSE IF s.returned THEN ahead(s) ELSE loop(s.st)
                    : s \in {SccStep(k, r.out[1])}})
      : r \in {GraphNextOp(g, c.dfs, started)}})

\* SCC::next (Iterator): the loop over the DFS entries.  c is {dfs,
\* unfinished_components}; consumed and started collect the entries read and
\* the trees started during this call, depth the deepest nesting of a
\* dfs.next() of the loop.
RECURSIVE SccNextOp(_, _, _, _)
SccNextOp(g, c, consumed, started) ==
    Only({
      LET k == c.unfinished_components
          done(k2, out, panic) ==
              [st |-> [dfs |-> r.st, unfinished_components |-> k2],
               out |-> out, panic |-> panic,
               consumed |-> consumed \o r.out, started |-> r.started,
               depth |-> r.depth]
          loop(k2) ==
              Only({Only({[later EXCEPT !.depth = [tree |-> Max(@.tree, r.depth.tree),
                                                  graph |-> Max(@.graph, r.depth.graph)]] :
                            later \in {SccNextOp(g, c2, n2, r.started)}}) :
                      c2 \in {[dfs |-> r.st, unfinished_components |-> k2]},
                      n2 \in {consumed \o r.out}})
      IN IF r.out = None
         THEN done(k, None, FALSE)
         ELSE Only({IF s.panic \/ s.returned
                    THEN done(s.st, s.out, s.panic)
                    ELSE loop(s.st)
                    : s \in {SccStep(k, r.out[1])}})
      : r \in {GraphNextOp(g, c.dfs, started)}})

(***************************************************************************)
(* Union-find                                                              *)
(* UnionFind.list is a map from VertexId to Node; a Result is {ok, value}. *)
(***************************************************************************)

TreeRoot(size) == <<"TreeRoot", size>>
DecendentOf(id) == <<"DecendentOf", id>>

Ok(value) == [ok |-> TRUE, value |-> value]
Err(error) == [ok |-> FALSE, value |-> error]

VertexNotIncluded(id) == <<"VertexNotIncluded", id>>

\* UnionFind::new over the vertices of a set (a repeated vertex of the
\* iterator is one key of the map).
UnionFindNew(vertex_set) == [v \in vertex_set |-> TreeRoot(1)]

\* UnionFind::find: Ok(Component {id, size}) of the root, or Err.
RECURSIVE find(_, _)
find(list, id) ==
    IF id \notin DOMAIN list
    THEN Err(VertexNotIncluded(id))
    ELSE IF list[id][1] = "TreeRoot"
    THEN Ok([id |-> id, size |-> list[id][2]])
    ELSE find(list, list[id][2])

\* Variants of UnionFind::union: one that links x and y themselves instead
\* of their roots, one that looks at y's error first.
union_linking_vertices(list, x, y) ==
    LET fx == find(list, x)
        fy == find(list, y)
    IN IF fx.ok /\ fy.ok
       THEN [result |-> Ok(<<>>),
             list |-> IF fx.value.id # fy.value.id
                      THEN IF fx.value.size < fy.value.size
                           THEN MapInsert(MapInsert(list, x, DecendentOf(fy.value.id)),
                                          fy.value.id,
                                          TreeRoot(fx.value.size + fy.value.size))
                           ELSE MapInsert(MapInsert(list, y, DecendentOf(fx.value.id)),
                                          fx.value.id,
                                          TreeRoot(fx.value.size + fy.value.size))
                      ELSE list]
       ELSE IF ~fx.ok THEN [result |-> fx, list |-> list]
       ELSE [result |-> fy, list |-> list]

\* A variant of UnionFind::union without the else branch: it links two
\* roots only when x's component is the smaller one.
union_linking_smaller_only(list, x, y) ==
    LET fx == find(list, x)
        fy == find(list, y)
    IN IF fx.ok /\ fy.ok
       THEN [result |-> Ok(<<>>),
             list |-> IF fx.value.id # fy.value.id /\ fx.value.size < fy.value.size
                      THEN MapInsert(MapInsert(list, fx.value.id,
                                               DecendentOf(fy.value.id)),
                                     fy.value.id,
                                     TreeRoot(fx.value.size + fy.value.size))
                      ELSE list]
       ELSE IF ~fx.ok THEN [result |-> fx, list |-> list]
       ELSE [result |-> fy, list |-> list]

union_reporting_second(list, x, y) ==
    LET fx == find(list, x)
        fy == find(list, y)
    IN IF fx.ok /\ fy.ok
       THEN [result |-> Ok(<<>>),
             list |-> IF fx.value.id # fy.value.id
                      THEN IF fx.value.size < fy.value.size
                           THEN MapInsert(MapInsert(list, fx.value.id,
                                                    DecendentOf(fy.value.id)),
                                          fy.value.id,
                                          TreeRoot(fx.value.size + fy.value.size))
                           ELSE MapInsert(MapInsert(list, fy.value.id,
                                                    DecendentOf(fx.value.id)),
                                          fx.value.id,
                                          TreeRoot(fx.value.size + fy.value.size))
                      ELSE list]
       ELSE IF ~fy.ok THEN [result |-> fy, list |-> list]
       ELSE [result |-> fx, list |-> list]

\* A variant of UnionFind::union that ignores the sizes when it chooses the
\* surviving root: the root of x always goes under the root of y.
union_ignoring_sizes(list, x, y) ==
    LET fx == find(list, x)
        fy == find(list, y)
    IN IF fx.ok /\ fy.ok
       THEN [result |-> Ok(<<>>),
             list |-> IF fx.value.id # fy.value.id
                      THEN MapInsert(MapInsert(list, fx.value.id,
                                               DecendentOf(fy.value.id)),
                                     fy.value.id,
                                     TreeRoot(fx.value.size + fy.value.size))
                      ELSE list]
       ELSE IF ~fx.ok THEN [result |-> fx, list |-> list]
       ELSE [result |-> fy, list |-> list]

\* A variant of UnionFind::union that does not compare the two roots.
union_without_root_check(list, x, y) ==
    LET fx == find(list, x)
        fy == find(list, y)
    IN IF fx.ok /\ fy.ok
       THEN [result |-> Ok(<<>>),
             list |-> IF fx.value.size < fy.value.size
                      THEN MapInsert(MapInsert(list, fx.value.id,
                                               DecendentOf(fy.value.id)),
                                     fy.value.id,
                                     TreeRoot(fx.value.size + fy.value.size))
                      ELSE MapInsert(MapInsert(list, fy.value.id,
                                               DecendentOf(fx.value.id)),
                                     fx.value.id,
                                     TreeRoot(fx.value.size + fy.value.size))]
       ELSE IF ~fx.ok THEN [result |-> fx, list |-> list]
       ELSE [result |-> fy, list |-> list]

\* UnionFind::union: the Result and the list afterwards.
union(list, x, y) ==
    LET fx == find(list, x)
        fy == find(list, y)
    IN IF fx.ok /\ fy.ok
       THEN [result |-> Ok(<<>>),
             list |-> IF fx.value.id # fy.value.id
                      THEN IF fx.value.size < fy.value.size
                           THEN MapInsert(MapInsert(list, fx.value.id,
                                                    DecendentOf(fy.value.id)),
                                          fy.value.id,
                                          TreeRoot(fx.value.size + fy.value.size))
                           ELSE MapInsert(MapInsert(list, fy.value.id,
                                                    DecendentOf(fx.value.id)),
                                          fx.value.id,
                                          TreeRoot(fx.value.size + fy.value.size))
                      ELSE list]
       ELSE IF ~fx.ok THEN [result |-> fx, list |-> list]
       ELSE [result |-> fy, list |-> list]

(***************************************************************************)
(* Weakly connected components                                             *)
(***************************************************************************)

\* Graph::edges: the edges of the graph, in the order of the edge list.
Graph_edges(g) == g.edges

\* UnionFind::all_components: one component per root, holding the vertices
\* whose find gives that root.
all_components(list) ==
    {{v \in DOMAIN list : find(list, v).value.id = root} :
        root \in {r \in DOMAIN list : list[r][1] = "TreeRoot"}}

\* WCC::on: the union-find over the vertices of the graph.
WccOn(g) == UnionFindNew({Graph_vertices(g)[i] : i \in 1..Len(Graph_vertices(g))})

\* The for_each of WCC::get over the first k edges: union(from, to).unwrap().
RECURSIVE UnionAll(_, _, _)
UnionAll(list, edges, k) ==
    IF k = 0 THEN [panic |-> FALSE, list |-> list]
    ELSE LET before == UnionAll(list, edges, k - 1)
             r == union(before.list, edges[k][1], edges[k][2])
         IN IF before.panic THEN before
            ELSE IF r.result.ok THEN [panic |-> FALSE, list |-> r.list]
            ELSE [panic |-> TRUE, list |-> before.list]

\* WCC::get: the union-find after all unions and the components it gives.
WccGet(g, list) ==
    LET united == UnionAll(list, Graph_edges(g), Len(Graph_edges(g)))
    IN [panic |-> united.panic,
        list |-> united.list,
        components |-> IF united.panic THEN {} ELSE all_components(united.list)]

(***************************************************************************)
(* Inputs and initial states                                               *)
(***************************************************************************)

VertexIds == 0..(MaxVertices - 1)
EdgeLists == UNION {[1..k -> VertexIds \X VertexIds] : k \in 0..MaxEdges}

InitTree ==
    \E n \in 0..MaxVertices, edges \in EdgeLists, s \in 0..MaxVertices :
        /\ GraphFrom(n, edges).ok
        /\ s <= n
        /\ object = "tree"
        /\ graph = GraphFrom(n, edges).value
        /\ start = s
        /\ enumeration = TreeOn(graph, s)
        /\ vertices = 0
        /\ explored = {}
        /\ unfinished_components = StackNew
        /\ steps = <<>>
        /\ panicked = FALSE
        /\ trace = <<>>
        /\ components = <<>>
        /\ exhausted = FALSE
        /\ cancelled = {}
        /\ trees = <<>>
        /\ calls_after_end = 0
        /\ depth = NoDepth
        /\ given = [vertex_count |-> n, edges |-> edges]
        /\ call = NoCall
        /\ union_find = <<>>
        /\ connected = {}

\* A caller pulls the next event from the tree-scoped traversal.
TreeNext ==
    /\ object = "tree"
    /\ exhausted => calls_after_end < MaxCallsAfterEnd
    /\ \E r \in {TreeNextOp(graph, enumeration)} :
          /\ enumeration' = r.st
          /\ trace' = trace \o r.out
          /\ exhausted' = (r.out = None)
          /\ depth' = [tree |-> r.depth, graph |-> 0]
    /\ calls_after_end' = IF exhausted THEN calls_after_end + 1 ELSE 0
    /\ UNCHANGED <<object, graph, start, vertices, explored, unfinished_components,
                   panicked, components, cancelled, trees>>
    /\ UNCHANGED callVars
    /\ UNCHANGED steps

\* A caller cancels the vertex whose BeginVertex it has just received, as the
\* graph-scoped traversal does.
TreeDrop ==
    /\ object = "tree"
    /\ trace # <<>>
    /\ Last(trace)[1] = "BeginVertex"
    /\ ~exhausted
    /\ enumeration' = drop_current_vertex(enumeration)
    /\ cancelled' = IF enumeration.stack # <<>>
                    THEN cancelled \cup {Last(enumeration.stack).id}
                    ELSE cancelled
    /\ UNCHANGED <<object, graph, start, vertices, explored, unfinished_components,
                   panicked, trace, components, exhausted, trees, calls_after_end,
                   depth>>
    /\ UNCHANGED callVars
    /\ UNCHANGED steps

\* A caller calls drop_current_vertex at any moment: before the first next(),
\* between any two calls, and after None.
TreeDropAnytime ==
    /\ object = "tree"
    /\ enumeration' = drop_current_vertex(enumeration)
    /\ cancelled' = IF enumeration.stack # <<>>
                    THEN cancelled \cup {Last(enumeration.stack).id}
                    ELSE cancelled
    /\ UNCHANGED <<object, graph, start, vertices, explored, unfinished_components,
                   panicked, trace, components, exhausted, trees, calls_after_end,
                   depth>>
    /\ UNCHANGED callVars
    /\ UNCHANGED steps

InitGraph ==
    \E n \in 0..MaxVertices, edges \in EdgeLists :
        /\ GraphFrom(n, edges).ok
        /\ object = "graph"
        /\ graph = GraphFrom(n, edges).value
        /\ start = 0
        /\ enumeration = GraphOn(graph).enumeration
        /\ vertices = GraphOn(graph).vertices
        /\ explored = GraphOn(graph).explored
        /\ unfinished_components = StackNew
        /\ steps = <<>>
        /\ panicked = FALSE
        /\ trace = <<>>
        /\ components = <<>>
        /\ exhausted = FALSE
        /\ cancelled = {}
        /\ trees = <<[root |-> 0, known |-> FALSE, explored |-> {}, at |-> 0]>>
        /\ calls_after_end = 0
        /\ depth = NoDepth
        /\ given = [vertex_count |-> n, edges |-> edges]
        /\ call = NoCall
        /\ union_find = <<>>
        /\ connected = {}

InitScc ==
    \E n \in 0..MaxVertices, edges \in EdgeLists :
        /\ GraphFrom(n, edges).ok
        /\ object = "scc"
        /\ graph = GraphFrom(n, edges).value
        /\ start = 0
        /\ enumeration = SccOn(graph).dfs.enumeration
        /\ vertices = SccOn(graph).dfs.vertices
        /\ explored = SccOn(graph).dfs.explored
        /\ unfinished_components = SccOn(graph).unfinished_components
        /\ steps = <<>>
        /\ panicked = FALSE
        /\ trace = <<>>
        /\ components = <<>>
        /\ exhausted = FALSE
        /\ cancelled = {}
        /\ trees = <<[root |-> 0, known |-> FALSE, explored |-> {}, at |-> 0]>>
        /\ calls_after_end = 0
        /\ depth = NoDepth
        /\ given = [vertex_count |-> n, edges |-> edges]
        /\ call = NoCall
        /\ union_find = <<>>
        /\ connected = {}

\* The trees of `started`, each with the number of events returned before it.
StartedAt(started, at) ==
    [i \in 1..Len(started) |->
        [root |-> started[i].root, known |-> started[i].known,
         explored |-> started[i].explored, at |-> at]]

\* A caller pulls the next event from the graph-scoped traversal.
GraphNext ==
    /\ object = "graph"
    /\ exhausted => calls_after_end < MaxCallsAfterEnd
    /\ \E r \in {GraphNextOp(graph,
                            [enumeration |-> enumeration, vertices |-> vertices,
                             explored |-> explored], <<>>)} :
          /\ enumeration' = r.st.enumeration
          /\ vertices' = r.st.vertices
          /\ explored' = r.st.explored
          /\ trace' = trace \o r.out
          /\ exhausted' = (r.out = None)
          /\ trees' = trees \o StartedAt(r.started, Len(trace))
          /\ depth' = r.depth
    /\ calls_after_end' = IF exhausted THEN calls_after_end + 1 ELSE 0
    /\ UNCHANGED <<object, graph, start, unfinished_components, panicked,
                   components, cancelled>>
    /\ UNCHANGED callVars
    /\ UNCHANGED steps

\* What SCC::next does with the entries it reads, one after the other,
\* from the working state k on.
RECURSIVE StepsAfter(_, _)
StepsAfter(k, entries) ==
    IF entries = <<>>
    THEN <<>>
    ELSE Only({<<step>> \o StepsAfter(step.st, Tail(entries)) :
                  step \in {SccStep(k, Head(entries))}})

\* A caller pulls the next component from SCC.  A panic ends the program.
SccNext ==
    /\ object = "scc"
    /\ ~panicked
    /\ exhausted => calls_after_end < MaxCallsAfterEnd
    /\ \E r \in {SccNextOp(graph,
                          [dfs |-> [enumeration |-> enumeration, vertices |-> vertices,
                                    explored |-> explored],
                           unfinished_components |-> unfinished_components],
                          <<>>, <<>>)} :
          /\ enumeration' = r.st.dfs.enumeration
          /\ vertices' = r.st.dfs.vertices
          /\ explored' = r.st.dfs.explored
          /\ unfinished_components' = r.st.unfinished_components
          /\ steps' = steps \o StepsAfter(unfinished_components, r.consumed)
          /\ panicked' = r.panic
          /\ trace' = trace \o r.consumed
          /\ components' = components \o r.out
          /\ exhausted' = (r.out = None /\ ~r.panic)
          /\ trees' = trees \o StartedAt(r.started, Len(trace))
          /\ depth' = r.depth
    /\ calls_after_end' = IF exhausted THEN calls_after_end + 1 ELSE 0
    /\ UNCHANGED <<object, graph, start, cancelled>>
    /\ UNCHANGED callVars

\* Unused iterator state of an object that is no iterator.
NoIterator ==
    /\ start = 0
    /\ enumeration = [stack |-> <<>>, explored |-> {}, output_queue |-> <<>>]
    /\ vertices = 0
    /\ explored = {}
    /\ unfinished_components = StackNew
    /\ steps = <<>>
    /\ trace = <<>>
    /\ components = <<>>
    /\ exhausted = FALSE
    /\ cancelled = {}
    /\ trees = <<>>
    /\ calls_after_end = 0
    /\ depth = NoDepth

iteratorVars == <<start, enumeration, vertices, explored, unfinished_components,
                  trace, components, exhausted, cancelled, trees, calls_after_end,
                  depth, steps>>

\* The ids a caller may pass for a vertex: those of the largest graph and one
\* beyond.
CallerIds == 0..MaxVertices

\* A caller is about to build a graph from a vertex count and any edge list,
\* dangling edges included.
InitMethods ==
    \E n \in 0..MaxVertices, edges \in EdgeLists :
        /\ object = "methods"
        /\ given = [vertex_count |-> n, edges |-> edges]
        /\ graph = None
        /\ call = NoCall
        /\ panicked = FALSE
        /\ union_find = <<>>
        /\ connected = {}
        /\ NoIterator

\* Graph::from(vertex_count, edges)
From ==
    /\ object = "methods"
    /\ call.op = "none"
    /\ LET r == GraphFrom(given.vertex_count, given.edges)
       IN /\ call' = [op |-> "from", args |-> <<given.vertex_count, given.edges>>,
                      result |-> r]
          /\ graph' = IF r.ok THEN r.value ELSE None
    /\ UNCHANGED <<object, given, panicked, union_find, connected>>
    /\ UNCHANGED iteratorVars

\* graph.contains(&VertexId(i))
Contains ==
    /\ object = "methods" /\ graph # None /\ ~panicked
    /\ \E i \in CallerIds :
          call' = [op |-> "contains", args |-> <<i>>, result |-> contains(graph, i)]
    /\ UNCHANGED <<object, graph, given, panicked, union_find, connected>>
    /\ UNCHANGED iteratorVars

\* graph.vertices(), collected
Vertices ==
    /\ object = "methods" /\ graph # None /\ ~panicked
    /\ call' = [op |-> "vertices", args |-> <<>>, result |-> Graph_vertices(graph)]
    /\ UNCHANGED <<object, graph, given, panicked, union_find, connected>>
    /\ UNCHANGED iteratorVars

\* graph.out_neighbors(VertexId(i)), collected.  A panic ends the program.
OutNeighbors ==
    /\ object = "methods" /\ graph # None /\ ~panicked
    /\ \E i \in CallerIds :
          LET r == out_neighbors_unwrap(graph, i)
          IN /\ call' = [op |-> "out_neighbors", args |-> <<i>>, result |-> r]
             /\ panicked' = r.panic
    /\ UNCHANGED <<object, graph, given, union_find, connected>>
    /\ UNCHANGED iteratorVars

\* A caller has built a UnionFind over some vertices.
InitUnionFind ==
    \E vertex_set \in SUBSET CallerIds :
        /\ object = "union_find"
        /\ given = [vertices |-> vertex_set]
        /\ graph = None
        /\ call = NoCall
        /\ panicked = FALSE
        /\ union_find = UnionFindNew(vertex_set)
        /\ connected = {{v} : v \in vertex_set}
        /\ NoIterator

\* union_find.find(VertexId(v))
Find ==
    /\ object = "union_find"
    /\ \E v \in CallerIds :
          call' = [op |-> "find", args |-> <<v>>, result |-> find(union_find, v)]
    /\ UNCHANGED <<object, graph, given, panicked, union_find, connected>>
    /\ UNCHANGED iteratorVars

\* The classes after the classes of x and y have become one.
Merged(classes, x, y) ==
    LET touched == {c \in classes : x \in c \/ y \in c}
    IN (classes \ touched) \cup {UNION touched}

\* union_find.union(VertexId(x), VertexId(y))
Union ==
    /\ object = "union_find"
    /\ \E x \in CallerIds, y \in CallerIds :
          LET r == union(union_find, x, y)
          IN /\ call' = [op |-> "union", args |-> <<x, y>>, result |-> r.result]
             /\ union_find' = r.list
             /\ connected' = IF r.result.ok THEN Merged(connected, x, y) ELSE connected
    /\ UNCHANGED <<object, graph, given, panicked>>
    /\ UNCHANGED iteratorVars

NextUnionFind == Find \/ Union

SpecUnionFind == InitUnionFind /\ [][NextUnionFind]_vars

\* A caller has made WCC::on(&graph).
InitWcc ==
    \E n \in 0..MaxVertices, edges \in EdgeLists :
        /\ GraphFrom(n, edges).ok
        /\ object = "wcc"
        /\ given = [vertex_count |-> n, edges |-> edges]
        /\ graph = GraphFrom(n, edges).value
        /\ call = NoCall
        /\ panicked = FALSE
        /\ union_find = WccOn(graph)
        /\ connected = {}
        /\ NoIterator

\* The sequences that list every element of a set once.
Orders(S) ==
    {f \in [1..Cardinality(S) -> S] : \A i, j \in 1..Cardinality(S) : f[i] = f[j] => i = j}

\* wcc.get().collect(): the components, in the order the map iterates.
Get ==
    /\ object = "wcc"
    /\ call.op = "none"
    /\ \E r \in {WccGet(graph, union_find)} :
          /\ union_find' = r.list
          /\ panicked' = r.panic
          /\ \E order \in Orders(r.components) :
                /\ components' = order
                /\ call' = [op |-> "get", args |-> <<>>, result |-> order]
    /\ UNCHANGED <<object, graph, given, connected>>
    /\ UNCHANGED <<start, enumeration, vertices, explored, unfinished_components,
                   trace, exhausted, cancelled, trees, calls_after_end, depth,
                   steps>>

NextWcc == Get

SpecWcc == InitWcc /\ [][NextWcc]_vars

NextMethods == From \/ Contains \/ Vertices \/ OutNeighbors

SpecMethods == InitMethods /\ [][NextMethods]_vars

NextTree == TreeNext \/ TreeDrop

SpecTree == InitTree /\ [][NextTree]_vars

NextGraph == GraphNext

SpecGraph == InitGraph /\ [][NextGraph]_vars

NextScc == SccNext

SpecScc == InitScc /\ [][NextScc]_vars

\* Both detailed traversals.
InitDfs == InitTree \/ InitGraph

NextDfs == TreeNext \/ TreeDrop \/ GraphNext

SpecDfs == InitDfs /\ [][NextDfs]_vars

\* Every iterator of the library over every graph within the bounds.
Init == InitTree \/ InitGraph \/ InitScc

Next == TreeNext \/ TreeDrop \/ GraphNext \/ SccNext

Spec == Init /\ [][Next]_vars

\* The same, with a caller that goes on calling next().
FairSpec ==
    Init /\ [][Next]_vars
         /\ WF_vars(TreeNext) /\ WF_vars(GraphNext) /\ WF_vars(SccNext)

\* The tree-scoped traversal with a caller that drops at arbitrary moments.
NextDrops == TreeNext \/ TreeDropAnytime

SpecDrops == InitTree /\ [][NextDrops]_vars

\* The same, with a caller that goes on calling next().
FairSpecDrops == InitTree /\ [][NextDrops]_vars /\ WF_vars(TreeNext)

(***************************************************************************)
(* Plain vertex-order enumeration: TreeEnumeration over a Buffer            *)
(***************************************************************************)

\* The two buffers: Queue is a VecDeque with its front first, Stack a Vec
\* with its top last.
Buffers == {"Queue", "Stack"}

\* Buffer::new
Buffer_new == <<>>

\* Buffer::start
Buffer_start(vertex) == <<vertex>>

\* Buffer::push: push_front for the queue, push for the stack.
Buffer_push(kind, buffer, vertex) ==
    IF kind = "Queue" THEN <<vertex>> \o buffer ELSE Append(buffer, vertex)

\* Buffer::pop: pop_back for the queue, pop for the stack.
Buffer_pop(kind, buffer) ==
    IF buffer = <<>>
    THEN [value |-> None, buffer |-> buffer]
    ELSE [value |-> Some(Last(buffer)), buffer |-> Front(buffer)]

\* for_each(|v| self.next.push(v)) over the first count neighbours.
RECURSIVE PushEach(_, _, _, _)
PushEach(kind, buffer, neighbours, count) ==
    IF count = 0
    THEN buffer
    ELSE Buffer_push(kind, PushEach(kind, buffer, neighbours, count - 1),
                     neighbours[count])

\* TreeEnumeration::on
TreeEnumerationOn(g, kind, s) ==
    IF contains(g, s)
    THEN [kind |-> kind, next |-> Buffer_start(s), explored |-> {}]
    ELSE [kind |-> kind, next |-> Buffer_new, explored |-> {}]

\* A variant of TreeEnumeration::next that yields whatever it pops, explored
\* or not.
TreeEnumerationNextOp_yielding_every_pop(g, e) ==
    LET popped == Buffer_pop(e.kind, e.next)
    IN IF popped.value = None
       THEN [st |-> e, out |-> None, panic |-> FALSE]
       ELSE LET next == popped.value[1]
                neighbours == out_neighbors_unwrap(g, next)
            IN [st |-> [kind |-> e.kind,
                        next |-> PushEach(e.kind, popped.buffer, neighbours.value,
                                          Len(neighbours.value)),
                        explored |-> e.explored \cup {next}],
                out |-> Some(next),
                panic |-> neighbours.panic]

\* TreeEnumeration::next: the enumeration afterwards, the returned Option and
\* whether the unwrap in out_neighbors_ref panicked.
RECURSIVE TreeEnumerationNextOp(_, _)
TreeEnumerationNextOp(g, e) ==
    LET popped == Buffer_pop(e.kind, e.next)
    IN IF popped.value = None
       THEN [st |-> e, out |-> None, panic |-> FALSE]
       ELSE LET next == popped.value[1]
            IN IF next \in e.explored
               THEN TreeEnumerationNextOp(g, [e EXCEPT !.next = popped.buffer])
               ELSE LET neighbours == out_neighbors_unwrap(g, next)
                    IN [st |-> [kind |-> e.kind,
                                next |-> PushEach(e.kind, popped.buffer,
                                                  neighbours.value,
                                                  Len(neighbours.value)),
                                explored |-> e.explored \cup {next}],
                        out |-> Some(next),
                        panic |-> neighbours.panic]

\* A caller has made BreadthFirst::on or DepthFirst::on with a start vertex
\* of the graph or the first id beyond it.
InitEnumeration ==
    \E n \in 0..MaxVertices, edges \in EdgeLists, s \in 0..MaxVertices,
       kind \in Buffers :
        /\ GraphFrom(n, edges).ok
        /\ s <= n
        /\ object = "enumeration"
        /\ graph = GraphFrom(n, edges).value
        /\ start = s
        /\ enumeration = TreeEnumerationOn(graph, kind, s)
        /\ vertices = 0
        /\ explored = {}
        /\ unfinished_components = StackNew
        /\ steps = <<>>
        /\ panicked = FALSE
        /\ trace = <<>>
        /\ components = <<>>
        /\ exhausted = FALSE
        /\ cancelled = {}
        /\ trees = <<>>
        /\ calls_after_end = 0
        /\ depth = NoDepth
        /\ given = [vertex_count |-> n, edges |-> edges]
        /\ call = NoCall
        /\ union_find = <<>>
        /\ connected = {}

\* A caller pulls the next vertex from the plain enumeration; trace holds the
\* vertices yielded so far.
EnumerationNext ==
    /\ object = "enumeration"
    /\ ~panicked
    /\ exhausted => calls_after_end < MaxCallsAfterEnd
    /\ \E r \in {TreeEnumerationNextOp(graph, enumeration)} :
          /\ enumeration' = r.st
          /\ trace' = trace \o r.out
          /\ exhausted' = (r.out = None)
          /\ panicked' = r.panic
    /\ calls_after_end' = IF exhausted THEN calls_after_end + 1 ELSE 0
    /\ UNCHANGED <<object, graph, start, vertices, explored, unfinished_components,
                   components, cancelled, trees, depth>>
    /\ UNCHANGED callVars
    /\ UNCHANGED steps

NextEnumeration == EnumerationNext

SpecEnumeration == InitEnumeration /\ [][NextEnumeration]_vars

(***************************************************************************)
(* Reference notions the properties are stated with                        *)
(***************************************************************************)

\* The vertices 0..n-1 of the graph.
VertexSet == {graph.vertices[i] : i \in 1..Len(graph.vertices)}

\* The edges of the edge list, as a set of pairs.
EdgeSet == {graph.edges[k] : k \in 1..Len(graph.edges)}

\* The vertices reachable from a vertex of S along directed edges, where no
\* edge leaving a vertex of Blocked is followed.
RECURSIVE ReachAvoiding(_, _)
ReachAvoiding(S, Blocked) ==
    LET T == S \cup {e[2] : e \in {x \in EdgeSet : x[1] \in S \ Blocked}}
    IN IF T = S THEN S ELSE ReachAvoiding(T, Blocked)

ReachFrom(v) == ReachAvoiding({v}, {})

MutuallyReachable(u, w) == w \in ReachFrom(u) /\ u \in ReachFrom(w)

\* How often an event occurs in the trace.
Count(event) == Cardinality({i \in 1..Len(trace) : trace[i] = event})

ComponentIndexes == 1..Len(components)

(***************************************************************************)
(* Strongly connected components                                           *)
(***************************************************************************)

\* C1: the components SCC yields are non-empty sets of vertices of the graph
\* and pairwise disjoint, and once SCC is exhausted their union is the whole
\* vertex set (so the empty graph yields no component).
C1_ComponentsPartitionVertices ==
    object = "scc" =>
        /\ \A i \in ComponentIndexes :
               components[i] # {} /\ components[i] \subseteq VertexSet
        /\ \A i, j \in ComponentIndexes :
               i # j => components[i] \cap components[j] = {}
        /\ exhausted =>
               /\ UNION {components[i] : i \in ComponentIndexes} = VertexSet
               /\ (VertexSet = {} => components = <<>>)

C1_Witness ==
    /\ object = "scc"
    /\ exhausted
    /\ Len(components) >= 2
    /\ \E i \in ComponentIndexes : Cardinality(components[i]) >= 2

\* C2: every yielded component is exactly the set of vertices mutually
\* reachable with each of its members, and once SCC is exhausted two vertices
\* share a component if and only if each is reachable from the other.
C2_ComponentsAreMutualReachabilityClasses ==
    object = "scc" =>
        /\ \A i \in ComponentIndexes : \A u \in components[i] :
               components[i] = {w \in VertexSet : MutuallyReachable(u, w)}
        /\ exhausted =>
               \A u, w \in VertexSet :
                   (\E i \in ComponentIndexes : u \in components[i] /\ w \in components[i])
                       <=> MutuallyReachable(u, w)

\* A graph with a self-loop whose traversal needs several trees and with a
\* component of two vertices.
C2_Witness ==
    /\ object = "scc"
    /\ exhausted
    /\ \E e \in EdgeSet : e[1] = e[2]
    /\ \E i \in ComponentIndexes : Cardinality(components[i]) >= 2
    /\ Cardinality({k \in 1..Len(trees) : ~trees[k].known}) >= 2

\* C3: components come in reverse topological order: the target of an edge
\* that leaves a yielded component lies in a component yielded before it.
C3_ReverseTopologicalOrder ==
    object = "scc" =>
        \A i \in ComponentIndexes : \A e \in EdgeSet :
            e[1] \in components[i] =>
                \/ e[2] \in components[i]
                \/ \E j \in 1..(i - 1) : e[2] \in components[j]

\* An edge between two components, one of which has two vertices.
C3_Witness ==
    /\ object = "scc"
    /\ exhausted
    /\ \E i \in ComponentIndexes : Cardinality(components[i]) >= 2
    /\ \E e \in EdgeSet : \E i, j \in ComponentIndexes :
           i # j /\ e[1] \in components[i] /\ e[2] \in components[j]

(***************************************************************************)
(* Tree-scoped traversal                                                   *)
(***************************************************************************)

\* The recursive depth-first search the traversal is compared with: visiting
\* v emits BeginVertex(v), then for each out-edge in edge-list order
\* BeginEdge, the visit of the target if it is undiscovered, EndEdge, and
\* finally EndVertex(v).  EdgesOut(v) are the targets of v's edges in
\* edge-list order.
EdgesOut(v) ==
    LET at == {k \in 1..Len(graph.edges) : graph.edges[k][1] = v}
        RECURSIVE Targets(_)
        Targets(k) ==
            IF k = 0 THEN <<>>
            ELSE IF k \in at THEN Append(Targets(k - 1), graph.edges[k][2])
                 ELSE Targets(k - 1)
    IN Targets(Len(graph.edges))

RECURSIVE RecVisit(_, _)
RECURSIVE RecEdges(_, _, _)
RecVisit(v, seen) ==
    LET r == RecEdges(v, 1, seen \cup {v})
    IN [events |-> <<BeginVertex(v)>> \o r.events \o <<EndVertex(v)>>,
        seen |-> r.seen]

RecEdges(v, k, seen) ==
    IF k > Len(EdgesOut(v))
    THEN [events |-> <<>>, seen |-> seen]
    ELSE LET w == EdgesOut(v)[k]
             sub == IF w \in seen
                    THEN [events |-> <<>>, seen |-> seen]
                    ELSE RecVisit(w, seen)
             rest == RecEdges(v, k + 1, sub.seen)
         IN [events |-> <<BeginEdge(v, w)>> \o sub.events \o <<EndEdge(v, w)>>
                            \o rest.events,
             seen |-> rest.seen]

RecursiveDfs == RecVisit(start, {}).events

IsPrefix(s, t) == Len(s) <= Len(t) /\ s = SubSeq(t, 1, Len(s))

\* C4: with no drop_current_vertex call, the events the tree-scoped traversal
\* has returned from a start vertex of the graph are a prefix of the event
\* sequence of the recursive depth-first search, and all of it once the
\* traversal is exhausted.
C4_TreeEventsAreRecursiveDfs ==
    (object = "tree" /\ cancelled = {} /\ start \in VertexSet) =>
        /\ IsPrefix(trace, RecursiveDfs)
        /\ exhausted => trace = RecursiveDfs

\* A finished run over a cycle through three vertices with no cancellation.
C4_Witness ==
    /\ object = "tree"
    /\ cancelled = {}
    /\ exhausted
    /\ Len(trace) = 12
    /\ \A v \in VertexSet : MutuallyReachable(start, v)

\* The positions of an event in the trace.
Positions(event) == {i \in 1..Len(trace) : trace[i] = event}

\* The vertices a traversal from start can discover when the out-edges of the
\* cancelled vertices are not explored.
Discoverable == ReachAvoiding({start}, cancelled)

\* C5 as stated: every vertex reachable from the root gets exactly one
\* BeginVertex, at most one EndVertex (exactly one unless it was cancelled),
\* and no EndVertex before its BeginVertex.
C5_Original ==
    (object = "tree" /\ start \in VertexSet) =>
        \A v \in ReachFrom(start) :
            /\ Count(BeginVertex(v)) <= 1
            /\ Count(EndVertex(v)) <= 1
            /\ \A j \in Positions(EndVertex(v)) :
                   \E i \in Positions(BeginVertex(v)) : i < j
            /\ exhausted =>
                   /\ Count(BeginVertex(v)) = 1
                   /\ (v \notin cancelled => Count(EndVertex(v)) = 1)

\* C5 amended: every vertex gets at most one BeginVertex and at most one
\* EndVertex, never an EndVertex before its BeginVertex; once the traversal is
\* exhausted, BeginVertex(v) has occurred exactly once for the vertices
\* reachable from the root along a path whose vertices before v were not
\* cancelled (and for no other vertex), and EndVertex(v) exactly once for
\* those of them that were not cancelled (and for no other vertex).
C5_VertexEventsOncePerDiscoverableVertex ==
    (object = "tree" /\ start \in VertexSet) =>
        \A v \in VertexSet :
            /\ Count(BeginVertex(v)) <= 1
            /\ Count(EndVertex(v)) <= 1
            /\ \A j \in Positions(EndVertex(v)) :
                   \E i \in Positions(BeginVertex(v)) : i < j
            /\ exhausted =>
                   /\ Count(BeginVertex(v)) = IF v \in Discoverable THEN 1 ELSE 0
                   /\ Count(EndVertex(v)) =
                          IF v \in Discoverable \ cancelled THEN 1 ELSE 0

\* A finished run in which a cancelled vertex hides a reachable vertex and the
\* root, which has parallel edges or a cycle back to it, is ended.
C5_Witness ==
    /\ object = "tree"
    /\ exhausted
    /\ cancelled # {}
    /\ ReachFrom(start) \ Discoverable # {}
    /\ Count(EndVertex(start)) = 1
    /\ \E v \in VertexSet : Count(BeginEdge(start, v)) + Count(BeginEdge(v, start)) >= 2

\* The targets of the BeginEdge (kind "BeginEdge") or EndEdge events with
\* source p among the first k events, in the order they were returned.
RECURSIVE EdgeTargets(_, _, _)
EdgeTargets(kind, p, k) ==
    IF k = 0 THEN <<>>
    ELSE IF trace[k][1] = kind /\ trace[k][2] = p
         THEN Append(EdgeTargets(kind, p, k - 1), trace[k][3])
         ELSE EdgeTargets(kind, p, k - 1)

IsEdgeEvent(event) == event[1] \in {"BeginEdge", "EndEdge"}

\* The stack positions holding a frame of vertex v.
FramesOf(v) == {i \in 1..Len(enumeration.stack) : enumeration.stack[i].id = v}

\* The drop is still pending: BeginVertex(v) was the last answer of next().
JustBegun(v) == ~exhausted /\ trace # <<>> /\ Last(trace) = BeginVertex(v)

\* C9: when drop_current_vertex is called right after BeginVertex(v):
\* (a) no EndVertex(v) and no edge event with source v is ever returned;
\* (b) until the next call v's frame is the top of the stack, marked dropped,
\*     and from the next call on v has no frame; no other frame is marked;
\* (c) the event after BeginVertex(v) is EndEdge(p, v) for the parent p whose
\*     BeginEdge(p, v) came right before it (a cancelled root ends the
\*     traversal with no further event);
\* (d) every other begun vertex still gets BeginEdge and EndEdge for all its
\*     out-edges in edge-list order and its EndVertex.
C9_DropSkipsOnlyTheDroppedVertex ==
    (object = "tree" /\ start \in VertexSet) =>
        /\ \A v \in cancelled :
            /\ Count(EndVertex(v)) = 0
            /\ \A i \in 1..Len(trace) : IsEdgeEvent(trace[i]) => trace[i][2] # v
            /\ IF JustBegun(v)
               THEN /\ FramesOf(v) = {Len(enumeration.stack)}
                    /\ Last(enumeration.stack).dropped
               ELSE FramesOf(v) = {}
            /\ \A i \in Positions(BeginVertex(v)) :
                   IF i = 1
                   THEN Len(trace) = 1
                   ELSE /\ trace[i - 1][1] = "BeginEdge" /\ trace[i - 1][3] = v
                        /\ i < Len(trace) => trace[i + 1] = EndEdge(trace[i - 1][2], v)
                        /\ exhausted => i < Len(trace)
        /\ \A i \in 1..Len(enumeration.stack) :
               enumeration.stack[i].dropped => enumeration.stack[i].id \in cancelled
        /\ exhausted =>
               \A p \in VertexSet \ cancelled :
                   Count(BeginVertex(p)) = 1 =>
                       /\ EdgeTargets("BeginEdge", p, Len(trace)) = EdgesOut(p)
                       /\ EdgeTargets("EndEdge", p, Len(trace)) = EdgesOut(p)
                       /\ Count(EndVertex(p)) = 1

\* A finished run in which a vertex with out-edges was cancelled and its
\* parent went on to a later out-edge and was ended.
C9_Witness ==
    /\ object = "tree"
    /\ exhausted
    /\ \E v \in cancelled : \E i \in Positions(BeginVertex(v)) :
           /\ i > 1
           /\ EdgesOut(v) # <<>>
           /\ \E j \in (i + 2)..Len(trace) :
                  trace[j][1] = "BeginEdge" /\ trace[j][2] = trace[i - 1][2]
           /\ Count(EndVertex(trace[i - 1][2])) = 1

(***************************************************************************)
(* Graph-scoped traversal                                                  *)
(***************************************************************************)

\* BeginVertex(w) is among the first n events.
BegunUpTo(w, n) == \E b \in 1..n : b <= Len(trace) /\ trace[b] = BeginVertex(w)

\* The number of events returned before the tree that returned event i was
\* started.
TreeStartOf(i) ==
    LET before == {trees[k].at : k \in {j \in 1..Len(trees) : trees[j].at < i}}
    IN CHOOSE a \in before : \A b \in before : b <= a

\* The positions of the BeginEdge events whose target an earlier tree began.
CrossTreeEdges ==
    {i \in 1..Len(trace) :
        trace[i][1] = "BeginEdge" /\ BegunUpTo(trace[i][3], TreeStartOf(i))}

\* C7: over the whole run of the graph-scoped traversal every vertex of the
\* graph gets exactly one BeginVertex and exactly one EndVertex (never more
\* than one at any point of the run).
C7_GraphVisitsEveryVertexOnce ==
    object = "graph" =>
        \A v \in VertexSet :
            /\ Count(BeginVertex(v)) <= 1
            /\ Count(EndVertex(v)) <= 1
            /\ exhausted => Count(BeginVertex(v)) = 1 /\ Count(EndVertex(v)) = 1

\* A finished run with several trees and an edge into an earlier tree.
C7_Witness ==
    /\ object = "graph"
    /\ exhausted
    /\ Cardinality({k \in 1..Len(trees) : ~trees[k].known}) >= 2
    /\ CrossTreeEdges # {}

\* C8: in the graph-scoped traversal
\* (a) a BeginEdge(u, w) whose target w was begun by an earlier tree is
\*     directly followed by EndEdge(u, w);
\* (b) once a later tree has started, no BeginVertex(w), EndVertex(w) or edge
\*     event with source w is returned for a vertex w begun before it;
\* (c) a tree started at a vertex that is already explored (which is the case
\*     exactly when an earlier tree began it) returns no event.
C8_ExploredVerticesAreNotReopened ==
    object = "graph" =>
        /\ \A i \in CrossTreeEdges :
               /\ i < Len(trace) => trace[i + 1] = EndEdge(trace[i][2], trace[i][3])
               /\ exhausted => i < Len(trace)
        /\ \A k \in 1..Len(trees) : \A w \in VertexSet :
               BegunUpTo(w, trees[k].at) =>
                   \A j \in (trees[k].at + 1)..Len(trace) :
                       /\ trace[j] # BeginVertex(w)
                       /\ trace[j] # EndVertex(w)
                       /\ IsEdgeEvent(trace[j]) => trace[j][2] # w
        /\ \A k \in 1..Len(trees) :
               /\ trees[k].known <=> BegunUpTo(trees[k].root, trees[k].at)
               /\ trees[k].known =>
                      IF k < Len(trees)
                      THEN trees[k + 1].at = trees[k].at
                      ELSE Len(trace) = trees[k].at

\* A finished run with an edge into a vertex of an earlier tree that has
\* out-edges of its own, and with a tree started at an explored vertex.
C8_Witness ==
    /\ object = "graph"
    /\ exhausted
    /\ \E i \in CrossTreeEdges : EdgesOut(trace[i][3]) # <<>>
    /\ \E k \in 1..Len(trees) : trees[k].known

(***************************************************************************)
(* Edge events of both traversals                                          *)
(***************************************************************************)

\* An event of vertex u as a source: an edge event leaving u, or EndVertex(u).
IsEventOf(event, u) == (IsEdgeEvent(event) /\ event[2] = u) \/ event = EndVertex(u)

\* The first position after i, and the last before j, of an event of u.
LaterEventsOf(u, i) == {j \in (i + 1)..Len(trace) : IsEventOf(trace[j], u)}
EarlierEventsOf(u, j) == {i \in 1..(j - 1) : IsEventOf(trace[i], u)}
Least(S) == CHOOSE x \in S : \A y \in S : x <= y
Greatest(S) == CHOOSE x \in S : \A y \in S : y <= x

\* C6 as stated: in the event streams of the tree-scoped and the graph-scoped
\* traversal the next event of u after a BeginEdge(u, v) is EndEdge(u, v), the
\* last event of u before an EndEdge(u, v) is BeginEdge(u, v), and if
\* BeginVertex(v) lies between the two then EndVertex(v) lies between that
\* BeginVertex(v) and the EndEdge.
C6_Original ==
    object \in {"tree", "graph"} =>
        /\ \A i \in 1..Len(trace) : trace[i][1] = "BeginEdge" =>
               LET u == trace[i][2]
                   v == trace[i][3]
                   later == LaterEventsOf(u, i)
               IN /\ exhausted => later # {}
                  /\ later # {} =>
                        /\ trace[Least(later)] = EndEdge(u, v)
                        /\ \A b \in (i + 1)..(Least(later) - 1) :
                               trace[b] = BeginVertex(v) =>
                                   \E e \in (b + 1)..(Least(later) - 1) :
                                       trace[e] = EndVertex(v)
        /\ \A j \in 1..Len(trace) : trace[j][1] = "EndEdge" =>
               LET earlier == EarlierEventsOf(trace[j][2], j)
               IN /\ earlier # {}
                  /\ trace[Greatest(earlier)] = BeginEdge(trace[j][2], trace[j][3])

\* C6 amended: in the event streams of the tree-scoped and the graph-scoped
\* traversal
\* (a) the next event of u after a BeginEdge(u, v) is EndEdge(u, v), and it has
\*     come once the traversal is exhausted;
\* (b) the last event of u before an EndEdge(u, v) is BeginEdge(u, v);
\* (c) if BeginVertex(v) lies between BeginEdge(u, v) and its EndEdge(u, v),
\*     then EndVertex(v) lies between that BeginVertex(v) and the EndEdge,
\*     unless v was cancelled with drop_current_vertex: then the EndEdge
\*     directly follows BeginVertex(v).
C6_EdgeEventsArePaired ==
    object \in {"tree", "graph"} =>
        /\ \A i \in 1..Len(trace) : trace[i][1] = "BeginEdge" =>
               LET u == trace[i][2]
                   v == trace[i][3]
                   later == LaterEventsOf(u, i)
               IN /\ exhausted => later # {}
                  /\ later # {} =>
                        /\ trace[Least(later)] = EndEdge(u, v)
                        /\ \A b \in (i + 1)..(Least(later) - 1) :
                               trace[b] = BeginVertex(v) =>
                                   IF v \in cancelled
                                   THEN Least(later) = b + 1
                                   ELSE \E e \in (b + 1)..(Least(later) - 1) :
                                            trace[e] = EndVertex(v)
        /\ \A j \in 1..Len(trace) : trace[j][1] = "EndEdge" =>
               LET earlier == EarlierEventsOf(trace[j][2], j)
               IN /\ earlier # {}
                  /\ trace[Greatest(earlier)] = BeginEdge(trace[j][2], trace[j][3])

\* A finished tree-scoped run with an edge that discovers a vertex which is
\* cancelled, and an edge that discovers a vertex whose own edge events lie
\* in between.
C6_Witness ==
    /\ object = "tree"
    /\ exhausted
    /\ \E i \in 1..(Len(trace) - 2) :
           /\ trace[i][1] = "BeginEdge"
           /\ trace[i + 1] = BeginVertex(trace[i][3])
           /\ trace[i + 2][1] = "BeginEdge"
    /\ \E i \in 1..(Len(trace) - 2) :
           /\ trace[i][1] = "BeginEdge"
           /\ trace[i + 1] = BeginVertex(trace[i][3])
           /\ trace[i][3] \in cancelled
           /\ trace[i + 2][1] = "EndEdge"

\* The multiplicity of (u, v) in the edge list.
Multiplicity(u, v) ==
    Cardinality({k \in 1..Len(graph.edges) : graph.edges[k] = <<u, v>>})

\* The vertices whose out-edges the traversal explores: all of them in the
\* graph-scoped traversal, in the tree-scoped one those that are discovered
\* and not cancelled.
ExploredSources ==
    IF object = "graph" THEN VertexSet
    ELSE IF start \in VertexSet THEN Discoverable \ cancelled ELSE {}

\* C10 as stated: once the traversal is exhausted, BeginEdge(u, v) and
\* EndEdge(u, v) have each been returned as often as (u, v) occurs in the edge
\* list, for every edge in the graph-scoped traversal and for every edge whose
\* source is reachable from the start in the tree-scoped one, while every
\* vertex is begun at most once.
C10_Original ==
    object \in {"tree", "graph"} =>
        /\ \A v \in VertexSet : Count(BeginVertex(v)) <= 1
        /\ exhausted =>
               \A u \in (IF object = "graph" THEN VertexSet
                         ELSE IF start \in VertexSet THEN ReachFrom(start) ELSE {}) :
                   \A v \in VertexSet :
                       /\ Count(BeginEdge(u, v)) = Multiplicity(u, v)
                       /\ Count(EndEdge(u, v)) = Multiplicity(u, v)

\* C10 amended: once the traversal is exhausted, BeginEdge(u, v) and
\* EndEdge(u, v) have each been returned as often as (u, v) occurs in the edge
\* list, for every edge in the graph-scoped traversal and, in the tree-scoped
\* one, for every edge whose source was discovered and not cancelled (every
\* source reachable from the start when nothing is cancelled) and never for
\* another edge; at no point of the run were there more of them, and every
\* vertex is begun at most once.
C10_EdgeEventsMatchMultiplicity ==
    object \in {"tree", "graph"} =>
        /\ \A u, v \in VertexSet :
               /\ Count(EndEdge(u, v)) <= Count(BeginEdge(u, v))
               /\ Count(BeginEdge(u, v)) <= Multiplicity(u, v)
               /\ Count(BeginVertex(v)) <= 1
        /\ exhausted =>
               \A u, v \in VertexSet :
                   /\ Count(BeginEdge(u, v)) =
                          IF u \in ExploredSources THEN Multiplicity(u, v) ELSE 0
                   /\ Count(EndEdge(u, v)) = Count(BeginEdge(u, v))

\* A finished tree-scoped run from a vertex with parallel edges to a vertex
\* that has out-edges and was cancelled.
C10_Witness ==
    /\ object = "tree"
    /\ exhausted
    /\ \E v \in cancelled :
           /\ v # start
           /\ EdgesOut(v) # <<>>
           /\ Multiplicity(start, v) >= 2
           /\ Count(EndEdge(start, v)) = Multiplicity(start, v)

(***************************************************************************)
(* Exhaustion                                                              *)
(***************************************************************************)

\* Some edge of the graph lies on a cycle.
Cyclic == \E e \in EdgeSet : e[1] \in ReachFrom(e[2])

\* C11: a caller that goes on calling next() on the tree-scoped traversal,
\* the graph-scoped traversal or SCC is eventually given None, on cyclic
\* graphs too; and once None was returned, every later next() returns None
\* again and adds no event and no component.
C11_ExhaustionIsReachedAndAbsorbing ==
    /\ <>exhausted
    /\ [][exhausted => (exhausted' /\ trace' = trace /\ components' = components)]_vars

\* next() was called again after None, on a cyclic graph whose traversal
\* produced events.
C11_Witness ==
    /\ exhausted
    /\ calls_after_end = MaxCallsAfterEnd
    /\ Cyclic
    /\ Len(trace) > Len(graph.vertices)

(***************************************************************************)
(* Graph construction and lookups                                          *)
(***************************************************************************)

\* Some edge of the given edge list has an endpoint that is no vertex.
Dangling ==
    \E k \in 1..Len(given.edges) :
        given.edges[k][1] >= given.vertex_count \/ given.edges[k][2] >= given.vertex_count

\* C12: Graph::from returns Err exactly when an edge has an endpoint >=
\* vertex_count; on Err the caller holds the message and no graph, on Ok a
\* graph with the given edges in their order and the vertices
\* 0..vertex_count-1.
C12_FromRejectsExactlyDanglingEdges ==
    call.op = "from" =>
        /\ call.result.ok <=> ~Dangling
        /\ ~call.result.ok =>
              /\ graph = None
              /\ call.result.value = "Dangling edges are not allowed"
        /\ call.result.ok =>
              /\ graph = call.result.value
              /\ graph.edges = given.edges
              /\ graph.vertices = [i \in 1..given.vertex_count |-> i - 1]

\* Graph::from was given a sound edge followed by one whose target alone
\* dangles, and returned Err.
C12_Witness ==
    /\ call.op = "from"
    /\ ~call.result.ok
    /\ Len(given.edges) >= 2
    /\ given.edges[1][1] < given.vertex_count /\ given.edges[1][2] < given.vertex_count
    /\ given.edges[2][1] < given.vertex_count /\ given.edges[2][2] >= given.vertex_count

\* C13: on a constructed graph, contains(VertexId(i)) is true exactly for
\* i < vertex_count, and vertices() yields 0, 1, ..., vertex_count-1 in
\* ascending order.
C13_ContainsAndVerticesMatchVertexCount ==
    /\ call.op = "contains" =>
          (call.result <=> call.args[1] < given.vertex_count)
    /\ call.op = "vertices" =>
          /\ Len(call.result) = given.vertex_count
          /\ \A k \in 1..Len(call.result) : call.result[k] = k - 1

\* contains was asked for the first id that is no vertex of a non-empty graph.
C13_Witness ==
    /\ call.op = "contains"
    /\ given.vertex_count > 0
    /\ call.args[1] = given.vertex_count
    /\ call.result = FALSE

\* The targets of the given edges that leave v, in the order of the edge list.
TargetsOf(v) ==
    LET leaves(e) == e[1] = v
        out == SelectSeq(given.edges, leaves)
    IN [k \in 1..Len(out) |-> out[k][2]]

Begun == {v \in VertexSet : Count(BeginVertex(v)) > 0}

\* C15 as stated: the tree-scoped traversal from a vertex of the graph begins
\* only vertices reachable from it along the edges' direction, and once it is
\* exhausted the begun vertices and explored() are exactly those.
C15_Original ==
    (object = "tree" /\ start \in VertexSet) =>
        /\ Begun \subseteq ReachFrom(start)
        /\ exhausted =>
              /\ Begun = ReachFrom(start)
              /\ enumeration.explored = ReachFrom(start)

\* C15 amended: the begun vertices are always reachable from the start along
\* the edges' direction and are the explored set; once the traversal is
\* exhausted they are exactly the vertices reachable from the start along a
\* path that leaves no vertex cancelled with drop_current_vertex, which is
\* every reachable vertex when nothing was cancelled.
C15_BegunVerticesAreTheDiscoverableOnes ==
    (object = "tree" /\ start \in VertexSet) =>
        /\ Begun \subseteq ReachFrom(start)
        /\ enumeration.explored = Begun
        /\ exhausted => Begun = Discoverable
        /\ (exhausted /\ cancelled = {}) => Begun = ReachFrom(start)

\* An exhausted traversal without cancellation that has followed an edge, on a
\* graph with an edge into the start from a vertex it cannot reach.
C15_Witness ==
    /\ object = "tree" /\ start \in VertexSet
    /\ exhausted
    /\ cancelled = {}
    /\ Cardinality(ReachFrom(start)) >= 2
    /\ \E e \in EdgeSet : e[2] = start /\ e[1] \notin ReachFrom(start)

(***************************************************************************)
(* Nesting of next()                                                       *)
(***************************************************************************)

\* C16: within one external next() call the self-invocations of next() nest
\* no deeper than a constant, whatever the graph and however many explored
\* vertices the call skips.  The constant is the nesting that skipping one
\* vertex takes: two in the tree-scoped layer (the cancelled frame, then its
\* parent), two in the graph-scoped layer (the new tree, then its suppressed
\* root); SCC::next is a loop and adds none of its own.
C16_NestingIsBoundedByAConstant ==
    /\ depth.tree <= 2
    /\ depth.graph <= 2

(***************************************************************************)
(* The fatal paths of the component stack                                  *)
(***************************************************************************)

\* The vertices on the component stack.
OnStack ==
    {unfinished_components.stack[i] : i \in 1..Len(unfinished_components.stack)}

\* C17: running SCC never takes a fatal path.  No unwrap of is_root or
\* update_with_minimum fails and pop_until never runs out of stack
\* (panicked stays false); push is called at most once per vertex, so never
\* for a vertex with a live entry, and the live entries are exactly the
\* vertices on the stack, each once.
C17_SccNeverPanics ==
    object = "scc" =>
        /\ ~panicked
        /\ \A v \in VertexSet : Count(BeginVertex(v)) <= 1
        /\ DOMAIN unfinished_components.vertices = OnStack
        /\ Cardinality(OnStack) = Len(unfinished_components.stack)

\* SCC ran to exhaustion on a cyclic graph with several components, where a
\* tree was started at a vertex an earlier tree had explored.
C17_Witness ==
    /\ object = "scc"
    /\ exhausted
    /\ Cyclic
    /\ Len(components) >= 2
    /\ \E i \in 1..Len(trees) : trees[i].known

(***************************************************************************)
(* Union-find                                                              *)
(***************************************************************************)

\* a and b are connected by the unions performed so far.
United(a, b) == \E c \in connected : a \in c /\ b \in c

\* C18: after any sequence of unions, find(a) and find(b) return the same
\* component (root id and size) exactly when a and b are connected by the
\* successful unions so far; right after union(x, y) returned Ok,
\* find(x) = find(y).
C18_FindAgreesWithUnions ==
    object = "union_find" =>
        /\ \A a \in given.vertices, b \in given.vertices :
               (find(union_find, a) = find(union_find, b)) <=> United(a, b)
        /\ (call.op = "union" /\ call.result.ok) =>
               find(union_find, call.args[1]) = find(union_find, call.args[2])

\* A union has just joined a vertex to a class of two, whose root it is not
\* given with, while another vertex is still on its own.
C18_Witness ==
    /\ object = "union_find"
    /\ call.op = "union" /\ call.result.ok
    /\ \E c \in connected : Cardinality(c) = 3 /\ call.args[1] \in c
    /\ Cardinality(connected) = 2
    /\ union_find[call.args[1]][1] = "DecendentOf"
    /\ union_find[call.args[2]][1] = "DecendentOf"

\* C19: find of a vertex not given at construction returns
\* Err(VertexNotIncluded(v)); union with a missing vertex returns Err naming x
\* if x is missing and otherwise y; and a call that returns Err leaves the
\* union-find as it was.
C19_ErrorsNameTheMissingVertex ==
    [][object = "union_find" =>
        /\ (call'.op = "find" /\ call'.args[1] \notin given.vertices) =>
               call'.result = Err(VertexNotIncluded(call'.args[1]))
        /\ (call'.op = "union" /\ call'.args[1] \notin given.vertices) =>
               call'.result = Err(VertexNotIncluded(call'.args[1]))
        /\ (call'.op = "union" /\ call'.args[1] \in given.vertices
                               /\ call'.args[2] \notin given.vertices) =>
               call'.result = Err(VertexNotIncluded(call'.args[2]))
        /\ ~call'.result.ok => union_find' = union_find]_vars

\* A union of two missing vertices returned Err after successful unions.
C19_Witness ==
    /\ object = "union_find"
    /\ call.op = "union" /\ ~call.result.ok
    /\ call.args[1] \notin given.vertices /\ call.args[2] \notin given.vertices
    /\ call.args[1] # call.args[2]
    /\ \E c \in connected : Cardinality(c) = 2

(***************************************************************************)
(* Weakly connected components                                             *)
(***************************************************************************)

\* The vertices connected to a vertex of S when the direction of the edges
\* of E is ignored.
RECURSIVE UndirectedReach(_, _)
UndirectedReach(S, E) ==
    LET T == S \cup {e[2] : e \in {x \in E : x[1] \in S}}
               \cup {e[1] : e \in {x \in E : x[2] \in S}}
    IN IF T = S THEN S ELSE UndirectedReach(T, E)

\* The edge list with its k-th edge turned round.
Reversed(edges, k) ==
    [j \in 1..Len(edges) |-> IF j = k THEN <<edges[j][2], edges[j][1]>> ELSE edges[j]]

\* What WCC::on(..).get() gives for the graph with the k-th edge turned round.
ComponentsReversed(k) ==
    LET g == GraphFrom(given.vertex_count, Reversed(given.edges, k)).value
    IN WccGet(g, WccOn(g)).components

\* C20: the components WCC::on(graph).get() yields partition the vertex set,
\* two vertices share a component exactly when they are connected with edge
\* direction ignored, turning any edge round gives the same components, and
\* the empty graph yields none.
C20_WccComponentsAreUndirectedClasses ==
    (object = "wcc" /\ call.op = "get") =>
        /\ ~panicked
        /\ UNION {components[i] : i \in ComponentIndexes} = VertexSet
        /\ \A i \in ComponentIndexes : components[i] # {}
        /\ \A i, j \in ComponentIndexes :
               i # j => components[i] \cap components[j] = {}
        /\ \A a \in VertexSet, b \in VertexSet :
               (\E i \in ComponentIndexes : a \in components[i] /\ b \in components[i])
                   <=> b \in UndirectedReach({a}, EdgeSet)
        /\ \A k \in 1..Len(given.edges) :
               {components[i] : i \in ComponentIndexes} = ComponentsReversed(k)
        /\ given.vertex_count = 0 => components = <<>>

\* get() gave two components, one of them a pair of vertices joined only by
\* an edge from the higher to the lower id.
C20_Witness ==
    /\ object = "wcc" /\ call.op = "get"
    /\ Len(components) = 2
    /\ \E u \in VertexSet, v \in VertexSet :
          /\ u > v
          /\ <<u, v>> \in EdgeSet /\ <<v, u>> \notin EdgeSet
          /\ \E i \in ComponentIndexes : components[i] = {u, v}

(***************************************************************************)
(* The trees of the graph-scoped traversal                                 *)
(***************************************************************************)

\* The vertices begun but not ended within the first n events.
OpenAfter(n) ==
    {v \in VertexSet :
        /\ BegunUpTo(v, n)
        /\ \A j \in 1..n : trace[j] # EndVertex(v)}

\* The edge events of one kind among the first n events.
EdgeEventsUpTo(kind, n) == {j \in 1..n : trace[j][1] = kind}

\* The positions of the BeginVertex events returned while no vertex is open.
RootPositions ==
    {i \in 1..Len(trace) : trace[i][1] = "BeginVertex" /\ OpenAfter(i - 1) = {}}

\* C21: the graph-scoped traversal starts a new tree only when the active
\* tree is exhausted (every vertex and edge begun so far has been ended);
\* the BeginVertex events returned while no vertex is open are the first
\* events of the trees started at unexplored vertices, their vertices
\* appear in strictly ascending order, and each is the smallest vertex not
\* begun so far.
C21_TreesStartInAscendingOrder ==
    [](object = "graph" =>
          /\ \A k \in 2..Len(trees) :
                 /\ OpenAfter(trees[k].at) = {}
                 /\ Cardinality(EdgeEventsUpTo("BeginEdge", trees[k].at))
                        = Cardinality(EdgeEventsUpTo("EndEdge", trees[k].at))
                 /\ trees[k].root > trees[k - 1].root
          /\ RootPositions =
                 {trees[k].at + 1 : k \in {j \in 1..Len(trees) :
                                              /\ ~trees[j].known
                                              /\ contains(graph, trees[j].root)
                                              /\ trees[j].at < Len(trace)}}
          /\ \A i \in RootPositions :
                 /\ \A w \in VertexSet : w < trace[i][2] => BegunUpTo(w, i - 1)
                 /\ ~BegunUpTo(trace[i][2], i - 1)
                 /\ \A j \in RootPositions : i < j => trace[i][2] < trace[j][2])

\* A finished run with at least two trees that returned events, one of them
\* after a tree started at an explored vertex.
C21_Witness ==
    /\ object = "graph"
    /\ exhausted
    /\ Cardinality(RootPositions) >= 2
    /\ \E k \in 2..Len(trees) : trees[k].known /\ k < Len(trees) /\ ~trees[k + 1].known

(***************************************************************************)
(* The steps of the component search                                       *)
(* Under SCC the trace holds the DFS entries read so far; StackAt(n) is    *)
(* the working state after the first n of them.                            *)
(***************************************************************************)

StackAt(n) == IF n = 0 THEN StackNew ELSE steps[n].st

\* The working state the search holds is the one its steps produced.
StepsGiveTheWorkingState ==
    (object = "scc" /\ ~panicked) =>
        /\ Len(steps) = Len(trace)
        /\ StackAt(Len(trace)) = unfinished_components

\* A call of SCC's next(): the positions of the entries it reads, and the
\* working state before and after the entry at position n.
Read == (Len(trace) + 1)..Len(trace')

Before(n) == IF n = 1 THEN StackNew ELSE steps'[n - 1].st

After(n) == steps'[n].st

\* The call adds its entries and steps to those of the earlier calls and
\* leaves the working state that its last step produced.
CallEndsInItsLastState ==
    ~panicked' =>
        /\ Len(steps') = Len(trace')
        /\ SubSeq(trace', 1, Len(trace)) = trace
        /\ SubSeq(steps', 1, Len(steps)) = steps
        /\ steps' # <<>> => Last(steps').st = unfinished_components'

\* The vertices with an entry after the first n entries of the trace.
LiveAt(n) == DOMAIN StackAt(n).vertices

\* The positions of the EndVertex entries whose vertex has low_link = index.
RootEnds ==
    {n \in 1..Len(trace) :
        /\ trace[n][1] = "EndVertex"
        /\ trace[n][2] \in LiveAt(n - 1)
        /\ StackAt(n - 1).vertices[trace[n][2]].low_link
              = StackAt(n - 1).vertices[trace[n][2]].index}

\* The positions of the EndEdge entries whose target has an entry.
LiveEdgeEnds ==
    {n \in 1..Len(trace) : trace[n][1] = "EndEdge" /\ trace[n][3] \in LiveAt(n - 1)}

\* For every entry EndEdge(u, w) the call reads while w has an entry.
EndEdgeTakesMinimumOfLowLinks ==
    \A n \in Read :
        (trace'[n][1] = "EndEdge" /\ trace'[n][3] \in DOMAIN Before(n).vertices) =>
            LET old == Before(n)
                new == After(n)
                u == trace'[n][2]
                w == trace'[n][3]
            IN /\ u \in DOMAIN old.vertices
               /\ DOMAIN new.vertices = DOMAIN old.vertices
               /\ new.vertices[u].low_link
                     = Min(old.vertices[u].low_link, old.vertices[w].low_link)
               /\ new.vertices[u].index = old.vertices[u].index
               /\ \A x \in DOMAIN old.vertices \ {u} :
                      new.vertices[x] = old.vertices[x]
               /\ new.stack = old.stack
               /\ new.next_vertex_index = old.next_vertex_index

\* C22: on EndEdge(u, w) where w has an entry, the low_link of u becomes the
\* minimum of its old value and the low_link of w, the index of u stays, and
\* no other entry, the stack or the index counter changes.
C22_EndEdgeTakesMinimumOfLowLinks ==
    [][object = "scc" => (CallEndsInItsLastState /\ EndEdgeTakesMinimumOfLowLinks)]_vars

\* An EndEdge(u, w) has lowered the low_link of u below its index to a
\* low_link of w that is below the index of w.
C22_Witness ==
    /\ object = "scc"
    /\ \E n \in LiveEdgeEnds :
          LET old == StackAt(n - 1)
              u == trace[n][2]
              w == trace[n][3]
          IN /\ old.vertices[w].low_link < old.vertices[w].index
             /\ old.vertices[w].low_link < old.vertices[u].low_link
             /\ StackAt(n).vertices[u].low_link = old.vertices[w].low_link

\* The component returned at a position of RootEnds.
ComponentAt(n) == steps[n].out[1]

\* The positions of the EndEdge entries whose target has no entry, and of the
\* EndVertex entries whose vertex has low_link # index.
DeadEdgeEnds ==
    {n \in 1..Len(trace) : trace[n][1] = "EndEdge" /\ trace[n][3] \notin LiveAt(n - 1)}

InnerEnds ==
    {n \in 1..Len(trace) :
        /\ trace[n][1] = "EndVertex"
        /\ trace[n][2] \in LiveAt(n - 1)
        /\ StackAt(n - 1).vertices[trace[n][2]].low_link
              # StackAt(n - 1).vertices[trace[n][2]].index}

\* The vertices of the components returned before the entry at position n.
YieldedBefore(n) ==
    UNION {steps'[m].out[1] : m \in {j \in 1..(n - 1) : steps'[j].out # None}}

\* For every entry the call reads that is a BeginEdge, an EndEdge(u, w)
\* while w has no entry, or an EndVertex(v) while low_link[v] # index[v].
OtherEventsLeaveTheWorkingState ==
    \A n \in Read :
        LET old == Before(n)
            entry == trace'[n]
            dead == entry[1] = "EndEdge" /\ entry[3] \notin DOMAIN old.vertices
            inner == /\ entry[1] = "EndVertex"
                     /\ entry[2] \in DOMAIN old.vertices
                     /\ old.vertices[entry[2]].low_link # old.vertices[entry[2]].index
        IN /\ (entry[1] = "BeginEdge" \/ dead \/ inner) => After(n) = old
           /\ dead => entry[3] \in YieldedBefore(n)

\* C23: the index counter, the map and the stack are left unchanged by every
\* BeginEdge, by every EndEdge(u, w) whose target w has no entry, which is
\* the case only when the component of w was already returned, and by every
\* EndVertex(v) with low_link[v] # index[v].
C23_OtherEventsLeaveTheWorkingState ==
    [][object = "scc" => (CallEndsInItsLastState /\ OtherEventsLeaveTheWorkingState)]_vars

\* One run with an edge into a returned component, met from a vertex whose
\* low_link is not 0, and with the end of a vertex that is no root.
C23_Witness ==
    /\ object = "scc"
    /\ \E n \in DeadEdgeEnds : StackAt(n - 1).vertices[trace[n][2]].low_link > 0
    /\ InnerEnds # {}
    /\ \E n \in 1..Len(trace) : trace[n][1] = "BeginEdge"

\* The position of the i-th entry of RootEnds.
RootEndAt(i) == CHOOSE n \in RootEnds : Cardinality({m \in RootEnds : m <= n}) = i

\* The positions of vertex on a stack.
PositionsOn(stack, vertex) == {j \in 1..Len(stack) : stack[j] = vertex}

\* For every entry EndVertex(v) the call reads while low_link[v] = index[v].
RootEndPopsItsComponent ==
    \A n \in Read :
        LET old == Before(n)
            new == After(n)
            v == trace'[n][2]
        IN (/\ trace'[n][1] = "EndVertex"
            /\ v \in DOMAIN old.vertices
            /\ old.vertices[v].low_link = old.vertices[v].index) =>
               /\ Cardinality(PositionsOn(old.stack, v)) = 1
               /\ LET i == CHOOSE j \in PositionsOn(old.stack, v) : TRUE
                       popped == {old.stack[j] : j \in i..Len(old.stack)}
                  IN /\ new.stack = SubSeq(old.stack, 1, i - 1)
                     /\ DOMAIN new.vertices = DOMAIN old.vertices \ popped
                     /\ \A x \in DOMAIN new.vertices :
                            new.vertices[x] = old.vertices[x]
                     /\ new.next_vertex_index = old.next_vertex_index
                     /\ components' = Append(components, popped)

\* C24: on EndVertex(v) with low_link[v] = index[v] the stack is popped down
\* to and including v, the entry of every popped vertex is removed, the
\* call returns exactly the set of popped vertices as the component, and the
\* entries and stack positions of the vertices below v are untouched.
C24_RootEndPopsItsComponent ==
    [][object = "scc" => (CallEndsInItsLastState /\ RootEndPopsItsComponent)]_vars

\* A component of two vertices has been popped from above a vertex that
\* stayed on the stack and has been returned.
C24_Witness ==
    /\ object = "scc"
    /\ \E i \in 1..Len(components) :
          /\ Cardinality(components[i]) >= 2
          /\ StackAt(RootEndAt(i)).stack # <<>>

\* The positions of the BeginVertex entries up to position n, the call's
\* entries included.
BeginsBy(n) == {j \in 1..n : trace'[j][1] = "BeginVertex"}

\* For every entry the call reads.
IndicesFollowArrivalOrder ==
    \A n \in Read :
        LET old == Before(n)
            new == After(n)
            k == Cardinality(BeginsBy(n))
        IN /\ new.next_vertex_index = k
           /\ trace'[n][1] = "BeginVertex" =>
                 /\ trace'[n][2] \notin DOMAIN old.vertices
                 /\ new.vertices[trace'[n][2]] = [index |-> k - 1, low_link |-> k - 1]
           /\ \A x \in DOMAIN new.vertices \cap DOMAIN old.vertices :
                  new.vertices[x].index = old.vertices[x].index
           /\ \A i, j \in 1..Len(new.stack) :
                  i < j => new.vertices[new.stack[i]].index
                             < new.vertices[new.stack[j]].index

\* C25: the k-th BeginVertex(v) gives v the index k - 1 as index and as
\* initial low_link and leaves the counter at k; an entry keeps its index
\* while it lives, so no index is used twice, also after entries were
\* removed; along the stack from bottom to top the indices strictly
\* increase.
C25_IndicesFollowArrivalOrder ==
    [][object = "scc" => (CallEndsInItsLastState /\ IndicesFollowArrivalOrder)]_vars

\* A vertex has been pushed after entries were removed: its index is larger
\* than the height of the stack below it.
C25_Witness ==
    /\ object = "scc"
    /\ \E n \in 1..Len(trace) :
          /\ trace[n][1] = "BeginVertex"
          /\ StackAt(n).vertices[trace[n][2]].index > Len(StackAt(n - 1).stack)
          /\ StackAt(n - 1).stack # <<>>

\* For every entry the call reads: the state after it, and what it removes.
EntriesLiveFromBeginToComponent ==
    \A n \in Read :
        LET old == Before(n)
            new == After(n)
            stacked == {new.stack[j] : j \in 1..Len(new.stack)}
            begun == {trace'[j][2] : j \in BeginsBy(n)}
        IN /\ DOMAIN new.vertices = stacked
           /\ Cardinality(stacked) = Len(new.stack)
           /\ DOMAIN new.vertices = begun \ YieldedBefore(n + 1)
           /\ DOMAIN old.vertices \ DOMAIN new.vertices =
                 IF steps'[n].out # None THEN steps'[n].out[1] ELSE {}
           /\ steps'[n].out # None => components' = Append(components, steps'[n].out[1])

\* C28: after every entry processed, the keys of the map are the vertices on
\* the stack, each of them there once, and are the vertices that were begun
\* and whose component has not been returned; entries are removed only in
\* the step that returns a component, and it removes the entries of all
\* members of the component.
C28_EntriesLiveFromBeginToComponent ==
    [][object = "scc" => (CallEndsInItsLastState /\ EntriesLiveFromBeginToComponent)]_vars

\* A component of two vertices has been returned while another vertex kept
\* its entry, and the search has gone on since.
C28_Witness ==
    /\ object = "scc"
    /\ \E n \in RootEnds :
          /\ Cardinality(ComponentAt(n)) >= 2
          /\ LiveAt(n) # {}
          /\ n < Len(trace)

\* What holds between the calls of SCC's next(): the entries read so far end
\* with the EndVertex of a root, and the components returned are those
\* popped at the roots' EndVertex entries, in their order.
ReadUpToARootEnd ==
    (object = "scc" /\ ~panicked) =>
        /\ StepsGiveTheWorkingState
        /\ trace = <<>> \/ Len(trace) \in RootEnds
        /\ Len(components) = Cardinality(RootEnds)
        /\ \A i \in 1..Len(components) : components[i] = ComponentAt(RootEndAt(i))
        /\ (\E v \in VertexSet : ~BegunUpTo(v, Len(trace))) => ~exhausted

\* One call of SCC's next(): it either reads entries and returns one more
\* component, or it reads no entry, returns None and leaves the DFS
\* exhausted.
OneCallOfScc ==
    (object = "scc" /\ ~panicked' /\ ~exhausted) =>
        \/ /\ components' = components
           /\ trace' = trace
           /\ exhausted'
        \/ /\ ~exhausted'
           /\ Len(trace') > Len(trace)
           /\ SubSeq(trace', 1, Len(trace)) = trace
           /\ Len(components') = Len(components) + 1
           /\ SubSeq(components', 1, Len(components)) = components

\* C29: every call of SCC's next() that returns a component reads the DFS
\* up to and including the first EndVertex of a root and no further and
\* returns the component of that root, so the i-th call returns the i-th
\* component; the DFS is run to its end only by the call that returns None.
C29_OneComponentPerCall == []ReadUpToARootEnd /\ [][OneCallOfScc]_vars

\* Two components have been returned by two calls while the DFS still has
\* vertices to begin.
C29_Witness ==
    /\ object = "scc"
    /\ Len(components) = 2
    /\ ~exhausted
    /\ \E v \in VertexSet : ~BegunUpTo(v, Len(trace))
    /\ \E n \in RootEnds : n < Len(trace) /\ trace[n + 1][1] # "BeginVertex"

(***************************************************************************)
(* The moment a BeginVertex is returned                                    *)
(***************************************************************************)

\* C26: whenever the tree traversal has returned BeginVertex(v), its output
\* queue is empty, the one frame of v is the top of the stack and its
\* neighbour cursor has not been advanced, so that drop_current_vertex at
\* that moment marks the frame of v and nothing else.
C26_BeginVertexLeavesItsFrameOnTop ==
    []((object \in {"tree", "graph"} /\ trace # <<>> /\ ~exhausted
                                  /\ Last(trace)[1] = "BeginVertex") =>
        LET v == Last(trace)[2]
            t == enumeration
        IN /\ t.output_queue = <<>>
           /\ t.stack # <<>>
           /\ FramesOf(v) = {Len(t.stack)}
           /\ Last(t.stack).id = v
           /\ Last(t.stack).current_neighbour = None
           /\ Last(t.stack).neighbours = 0
           /\ drop_current_vertex(t) =
                 [t EXCEPT !.stack = Append(Front(t.stack),
                                            [Last(t.stack) EXCEPT !.dropped = TRUE])])

\* A BeginVertex has been returned for a vertex with out-edges that was
\* reached over an edge, and the caller has not cancelled it.
C26_Witness ==
    /\ object = "tree"
    /\ trace # <<>> /\ ~exhausted /\ Last(trace)[1] = "BeginVertex"
    /\ Len(enumeration.stack) >= 2
    /\ out_neighbors(graph, Last(trace)[2]) # <<>>
    /\ Last(trace)[2] \notin cancelled

(***************************************************************************)
(* The explored sets                                                       *)
(***************************************************************************)

\* The vertices begun within the first n entries of the trace.
BegunBy(n) == {v \in VertexSet : BegunUpTo(v, n)}

\* At every start of a tree the outer explored set, as start_new_tree left
\* it, holds the vertices begun by the earlier trees and the outer sets of
\* the earlier starts.
OuterSetCoversEarlierTrees ==
    object = "graph" =>
        \A k \in 2..Len(trees) :
            /\ BegunBy(trees[k].at) \subseteq trees[k].explored
            /\ trees[k - 1].explored \subseteq trees[k].explored
            /\ trees[k].explored \subseteq explored

\* A step removes no vertex from the explored set of the tree traversal nor
\* from the outer explored set; the tree of the graph-scoped traversal is
\* the same one as long as no tree is started.
ExploredSetsGrow ==
    /\ object = "tree" => enumeration.explored \subseteq enumeration'.explored
    /\ object = "graph" =>
          /\ explored \subseteq explored'
          /\ trees' = trees => enumeration.explored \subseteq enumeration'.explored

\* C27: the explored set of a tree traversal and the outer explored set of
\* the graph-scoped traversal only grow, and each time the graph-scoped
\* traversal starts a new tree its outer set contains every vertex begun by
\* an earlier tree.
C27_ExploredSetsOnlyGrow == []OuterSetCoversEarlierTrees /\ [][ExploredSetsGrow]_vars

\* A third tree has been started after two trees that each begun a vertex.
C27_Witness ==
    /\ object = "graph"
    /\ \E k \in 3..Len(trees) :
          /\ Cardinality(BegunBy(trees[k].at)) >= 2
          /\ trees[k - 1].explored # {}
          /\ trees[k - 1].explored # trees[k].explored

(***************************************************************************)
(* Traversals of nothing                                                   *)
(***************************************************************************)

\* The vertices a frame was made for: Vertex::from asks the graph for the
\* out-neighbours of each of them.
FrameIds == {enumeration.stack[i].id : i \in 1..Len(enumeration.stack)}

\* C30: a tree traversal made on a start vertex the graph does not contain
\* has an empty stack from the start, returns no event, and makes no frame,
\* so out_neighbors is not asked about the missing vertex and nothing
\* panics; out_neighbors is asked only about vertices of the graph.  The
\* graph-scoped traversal of a graph without vertices returns no event.
C30_MissingStartYieldsNothing ==
  [](
    /\ (object = "tree" /\ ~contains(graph, start)) =>
          /\ enumeration.stack = <<>>
          /\ enumeration.output_queue = <<>>
          /\ trace = <<>>
          /\ ~panicked
          /\ TreeNextOp(graph, enumeration).out = None
    /\ object \in {"tree", "graph"} =>
          \A v \in FrameIds : ~out_neighbors_unwrap(graph, v).panic
    /\ (object = "graph" /\ graph.vertices = <<>>) =>
          /\ enumeration.stack = <<>>
          /\ trace = <<>>
          /\ GraphNextOp(graph, [enumeration |-> enumeration, vertices |-> vertices,
                                 explored |-> explored], <<>>).out = None)

\* The traversal from a missing start vertex of a graph with edges has been
\* run to its end.
C30_Witness ==
    /\ object = "tree"
    /\ ~contains(graph, start)
    /\ EdgeSet # {}
    /\ exhausted
    /\ trace = <<>>

(***************************************************************************)
(* Self-loops and repeated edges                                           *)
(***************************************************************************)

\* The positions up to n at which the entry is among the entries returned
\* so far, the step's entries included.
PositionsBy(entry, n) == {j \in 1..n : trace'[j] = entry}

\* For every entry a step returns (under SCC: reads): the events of an edge
\* from a vertex to itself come as the pair BeginEdge, EndEdge with nothing
\* between them, the vertex is begun once and has one frame, and by the
\* EndVertex of a vertex every copy of each of its edges has had its
\* BeginEdge and its EndEdge.
SelfLoopIsOnePair ==
    /\ \A n \in Read :
           LET entry == trace'[n]
           IN /\ (entry[1] = "EndEdge" /\ entry[2] = entry[3]) =>
                    n > 1 /\ trace'[n - 1] = BeginEdge(entry[2], entry[2])
              /\ (n > 1 /\ trace'[n - 1][1] = "BeginEdge"
                         /\ trace'[n - 1][2] = trace'[n - 1][3]) =>
                    entry = EndEdge(trace'[n - 1][2], trace'[n - 1][2])
              /\ entry[1] = "BeginVertex" => PositionsBy(entry, n) = {n}
              /\ entry[1] = "EndVertex" =>
                    \A w \in VertexSet :
                        /\ Cardinality(PositionsBy(BeginEdge(entry[2], w), n))
                              = Multiplicity(entry[2], w)
                        /\ Cardinality(PositionsBy(EndEdge(entry[2], w), n))
                              = Multiplicity(entry[2], w)
    /\ (exhausted' /\ trace' # <<>>) => Last(trace')[1] # "BeginEdge"
    /\ \A i, j \in 1..Len(enumeration'.stack) :
           (/\ enumeration'.stack[i].id = enumeration'.stack[j].id
            /\ <<enumeration'.stack[i].id, enumeration'.stack[i].id>> \in EdgeSet)
               => i = j

\* For every EndEdge SCC's next() reads: the end of an edge from a vertex to
\* itself finds the entry of the vertex and leaves the working state as it
\* is; the end of a further copy of an edge finds the target as the earlier
\* copies found it, with the same entry or with none.
RepeatedEdgeFindsTheSameEntry ==
    \A n \in Read :
        trace'[n][1] = "EndEdge" =>
            LET u == trace'[n][2]
                w == trace'[n][3]
                old == Before(n)
            IN /\ u \in DOMAIN old.vertices
               /\ u = w => After(n) = old
               /\ \A m \in PositionsBy(trace'[n], n - 1) :
                      LET earlier == Before(m)
                      IN /\ (w \in DOMAIN earlier.vertices) = (w \in DOMAIN old.vertices)
                         /\ w \in DOMAIN old.vertices =>
                               earlier.vertices[w].index = old.vertices[w].index

\* C31: an edge from u to u makes the traversal return BeginEdge(u, u)
\* directly followed by EndEdge(u, u), without a second BeginVertex(u) or a
\* second frame of u, and in SCC its EndEdge leaves low_link[u] unchanged;
\* every copy of a repeated edge has its own BeginEdge and EndEdge, and in
\* SCC each EndEdge of the copies finds the target's same entry or finds
\* it removed.
C31_SelfLoopsAndRepeatedEdges ==
    [][/\ SelfLoopIsOnePair
       /\ object = "scc" => (CallEndsInItsLastState /\ RepeatedEdgeFindsTheSameEntry)]_vars

\* SCC has read both copies of an edge into a returned component and the
\* two events of an edge from a vertex to itself, met while the vertex had a
\* low_link above 0.
C31_Witness ==
    /\ object = "scc"
    /\ \E n \in 1..Len(trace) :
          /\ trace[n][1] = "EndEdge" /\ trace[n][2] = trace[n][3]
          /\ StackAt(n).vertices[trace[n][2]].low_link > 0
    /\ \E m, n \in DeadEdgeEnds : m < n /\ trace[m] = trace[n]

(***************************************************************************)
(* Union by size                                                           *)
(***************************************************************************)

\* The root that union(x, y) puts under the other one: the root of the
\* strictly smaller tree, and the root of y when the sizes are equal.
AttachedRoot(xroot, yroot) ==
    IF xroot.size < yroot.size THEN xroot.id ELSE yroot.id

\* The root that union(x, y) keeps.
SurvivingRoot(xroot, yroot) ==
    IF xroot.size < yroot.size THEN yroot.id ELSE xroot.id

\* One successful union(x, y), seen from the trees before the call.
UnionBySize ==
    (call'.op = "union" /\ call'.result.ok) =>
        LET xroot == find(union_find, call'.args[1]).value
            yroot == find(union_find, call'.args[2]).value
        IN IF xroot.id = yroot.id
           THEN union_find' = union_find
           ELSE /\ DOMAIN union_find' = DOMAIN union_find
                /\ union_find'[AttachedRoot(xroot, yroot)] =
                       DecendentOf(SurvivingRoot(xroot, yroot))
                /\ union_find'[SurvivingRoot(xroot, yroot)] =
                       TreeRoot(xroot.size + yroot.size)
                /\ \A v \in DOMAIN union_find \ {xroot.id, yroot.id} :
                       union_find'[v] = union_find[v]

\* C32: union(x, y) on two different roots puts the root of the strictly
\* smaller tree under the root of the larger one, puts the root of y under
\* the root of x when the sizes are equal, and records the sum of the two
\* sizes at the root that stays; a union of two vertices of one tree changes
\* nothing.
C32_UnionAttachesSmallerUnderLarger ==
    [][object = "union_find" => UnionBySize]_vars

\* union(x, y) was given a single vertex x and a vertex y of a tree of two
\* that is not its root: x hangs under the root of y, which counts three.
C32_Witness ==
    /\ object = "union_find"
    /\ call.op = "union" /\ call.result.ok
    /\ LET x == call.args[1]
           y == call.args[2]
       IN /\ x # y
          /\ union_find[y][1] = "DecendentOf"
          /\ union_find[x] = union_find[y]
          /\ union_find[union_find[y][2]] = TreeRoot(3)

(***************************************************************************)
(* Plain enumeration yields the reachable vertices once                    *)
(***************************************************************************)

\* The vertices the plain enumeration has yielded so far.
Yielded == {trace[i] : i \in 1..Len(trace)}

\* How often the enumeration has pushed a vertex so far: once for every edge
\* into it from a yielded vertex, and once more for the start vertex.
TimesPushed(v) ==
    Cardinality({k \in 1..Len(graph.edges) :
                    graph.edges[k][2] = v /\ graph.edges[k][1] \in Yielded})
    + (IF v = start /\ start \in VertexSet THEN 1 ELSE 0)

\* C33: the plain vertex-order enumeration, breadth first over the queue or
\* depth first over the stack, started at a vertex of the graph yields
\* exactly the vertices reachable from the start along edge direction, each
\* once and the start first, however often a vertex is pushed to the buffer.
C33_PlainEnumerationYieldsReachableOnce ==
    (object = "enumeration" /\ start \in VertexSet) =>
        /\ ~panicked
        /\ \A i, j \in 1..Len(trace) : trace[i] = trace[j] => i = j
        /\ trace # <<>> => trace[1] = start
        /\ Yielded \subseteq ReachAvoiding({start}, {})
        /\ Yielded = enumeration.explored
        /\ exhausted => Yielded = ReachAvoiding({start}, {})
        /\ (~exhausted /\ enumeration.next = <<>>) =>
               Yielded = ReachAvoiding({start}, {})

\* The enumeration is exhausted after it yielded the start and another
\* vertex; an edge back to the start pushed the start again, and parallel
\* edges pushed the other vertex twice.
C33_Witness ==
    /\ object = "enumeration"
    /\ exhausted
    /\ Len(trace) >= 2
    /\ TimesPushed(start) >= 2
    /\ \E v \in Yielded \ {start} : TimesPushed(v) >= 2

(***************************************************************************)
(* Low links point down the stack                                          *)
(***************************************************************************)

\* For every entry the call reads: in the state after it, the low_link of
\* every vertex with an entry is at most its index and is the index of a
\* vertex with an entry that lies at its place on the stack or below.
LowLinksPointDownTheStack ==
    \A n \in Read :
        LET new == After(n)
        IN \A p \in 1..Len(new.stack) :
               /\ new.stack[p] \in DOMAIN new.vertices
               /\ new.vertices[new.stack[p]].low_link <= new.vertices[new.stack[p]].index
               /\ \E q \in 1..p :
                      new.vertices[new.stack[q]].index =
                          new.vertices[new.stack[p]].low_link

\* C35: for every vertex v with an entry, low_link[v] <= index[v], and
\* low_link[v] is the index of a vertex that has an entry at or below v on
\* the stack, never of a vertex whose component was returned.
C35_LowLinksPointDownTheStack ==
    [][object = "scc" => (CallEndsInItsLastState /\ LowLinksPointDownTheStack)]_vars

\* A vertex whose low_link had been lowered to the index of a vertex below it
\* has finished an edge to a vertex whose component was returned before, and
\* has kept its low_link.
C35_Witness ==
    /\ object = "scc"
    /\ \E n \in DeadEdgeEnds :
          /\ trace[n][2] \in LiveAt(n)
          /\ StackAt(n).vertices[trace[n][2]].low_link
                < StackAt(n).vertices[trace[n][2]].index

(***************************************************************************)
(* The stack is a simple path                                              *)
(***************************************************************************)

\* The stack of the tree-scoped traversal is a simple directed path of the
\* graph.
StackIsASimplePath ==
    LET stack == enumeration.stack
    IN /\ \A i, j \in 1..Len(stack) : stack[i].id = stack[j].id => i = j
       /\ \A i \in 2..Len(stack) :
              /\ stack[i - 1].current_neighbour = Some(stack[i].id)
              /\ <<stack[i - 1].id, stack[i].id>> \in EdgeSet
       /\ \A i \in 1..(Len(stack) - 1) : stack[i].id \in enumeration.explored

\* C34: at every point of a tree-scoped traversal, run on its own or under
\* the graph-scoped traversal, the frames of the stack hold pairwise distinct
\* vertices, every frame but the bottom one holds the current_neighbour of
\* the frame below it, and every frame but possibly the top one is in the
\* explored set.
C34_StackIsASimplePath ==
    [](object \in {"tree", "graph"} => StackIsASimplePath)

\* Three frames are on the stack and the top one has not been begun.
C34_Witness ==
    /\ object \in {"tree", "graph"}
    /\ Len(enumeration.stack) = 3
    /\ Last(enumeration.stack).id \notin enumeration.explored
    /\ enumeration.stack[1].neighbours > 1

(***************************************************************************)
(* The working state of SCC is empty between trees                         *)
(***************************************************************************)

\* The vertices begun but not ended within the first n entries, the call's
\* entries included.
OpenBy(n) ==
    {v \in VertexSet :
        /\ \E b \in 1..n : trace'[b] = BeginVertex(v)
        /\ \A j \in 1..n : trace'[j] # EndVertex(v)}

\* For every entry the call reads: the stack and the map are empty after the
\* EndVertex that leaves no vertex open, and before the BeginVertex of the
\* root of a tree; and they are empty when the call returns None.
EmptyBetweenTrees ==
    /\ \A n \in Read :
           /\ (trace'[n][1] = "EndVertex" /\ OpenBy(n) = {}) =>
                  /\ After(n).stack = <<>>
                  /\ DOMAIN After(n).vertices = {}
                  /\ steps'[n].returned
           /\ (trace'[n][1] = "BeginVertex" /\ OpenBy(n - 1) = {}) =>
                  /\ Before(n).stack = <<>>
                  /\ DOMAIN Before(n).vertices = {}
    /\ exhausted' =>
           /\ unfinished_components'.stack = <<>>
           /\ DOMAIN unfinished_components'.vertices = {}
           /\ OpenBy(Len(trace')) = {}

\* C36: whenever the EndVertex of the root of a tree of the graph-scoped
\* traversal has been processed, and when the traversal is exhausted, the
\* stack and the map of SCC are empty: no entry is carried over into a later
\* tree or left at the end.
C36_EmptyBetweenTrees ==
    [][object = "scc" => (CallEndsInItsLastState /\ EmptyBetweenTrees)]_vars

\* SCC is exhausted after two trees; the first one returned its vertices in
\* two components, and an edge of the second one led back into the first.
C36_Witness ==
    /\ object = "scc"
    /\ exhausted
    /\ Cardinality(RootPositions) = 2
    /\ Len(components) = 3
    /\ DeadEdgeEnds # {}
    /\ unfinished_components.stack = <<>>

(***************************************************************************)
(* Dropping at arbitrary moments                                           *)
(***************************************************************************)

\* The positions of an entry among the first n events returned.
PositionsUpTo(entry, n) == {j \in 1..n : trace[j] = entry}

\* Among the events returned so far no vertex is begun or ended twice, and
\* up to every event the copies of an edge that were begun are ended except
\* at most one, the last one begun.
EventsStayMatched ==
    /\ \A v \in VertexSet :
           /\ Cardinality(PositionsUpTo(BeginVertex(v), Len(trace))) <= 1
           /\ Cardinality(PositionsUpTo(EndVertex(v), Len(trace))) <= 1
    /\ \A n \in 1..Len(trace) :
           (trace[n][1] \in {"BeginEdge", "EndEdge"}) =>
               LET begun == Cardinality(PositionsUpTo(BeginEdge(trace[n][2], trace[n][3]), n))
                   ended == Cardinality(PositionsUpTo(EndEdge(trace[n][2], trace[n][3]), n))
               IN ended <= begun /\ begun <= ended + 1
    /\ exhausted =>
           \A u, v \in VertexSet :
               Cardinality(PositionsUpTo(BeginEdge(u, v), Len(trace)))
                   = Cardinality(PositionsUpTo(EndEdge(u, v), Len(trace)))

\* C37: for any interleaving of next() and drop_current_vertex() calls on a
\* tree-scoped traversal, with drops at arbitrary moments, every BeginEdge(u, v)
\* returned is matched by exactly one later EndEdge(u, v), no vertex gets two
\* BeginVertex or two EndVertex events, and a caller that goes on calling
\* next() is given None.
C37_DropsKeepEdgesMatched ==
    /\ [](object = "tree" => EventsStayMatched)
    /\ <>exhausted

\* The traversal is exhausted; a vertex with several out-edges was dropped
\* after the first of them had been begun: that edge was ended all the same,
\* the others were never begun, and the vertex was not ended.
C37_Witness ==
    /\ object = "tree"
    /\ exhausted
    /\ \E u \in cancelled :
          /\ PositionsUpTo(EndVertex(u), Len(trace)) = {}
          /\ Len(EdgesOut(u)) > 1
          /\ Cardinality({n \in 1..Len(trace) :
                              trace[n][1] = "BeginEdge" /\ trace[n][2] = u}) = 1
          /\ Cardinality({n \in 1..Len(trace) :
                              trace[n][1] = "EndEdge" /\ trace[n][2] = u}) = 1

(***************************************************************************)
(* What a drop changes                                                     *)
(***************************************************************************)

\* Two frames that differ at most in the dropped flag.
SameButDropped(before, after) ==
    /\ after.id = before.id
    /\ after.current_neighbour = before.current_neighbour
    /\ after.neighbours = before.neighbours
    /\ after.dropped

\* Two traversals that differ at most in the dropped flag of the top frame.
OnlyTheTopFlagDiffers(before, after) ==
    /\ after.explored = before.explored
    /\ after.output_queue = before.output_queue
    /\ Len(after.stack) = Len(before.stack)
    /\ \A i \in 1..(Len(before.stack) - 1) : after.stack[i] = before.stack[i]
    /\ before.stack # <<>> => SameButDropped(Last(before.stack), Last(after.stack))

\* A drop_current_vertex call in the present state: what it would change,
\* what it does on an empty stack, and what a second call adds.
DropInThisState ==
    /\ OnlyTheTopFlagDiffers(enumeration, drop_current_vertex(enumeration))
    /\ enumeration.stack = <<>> => drop_current_vertex(enumeration) = enumeration
    /\ drop_current_vertex(drop_current_vertex(enumeration))
          = drop_current_vertex(enumeration)

\* A step that is a drop_current_vertex call: no next() was called.
DropStep ==
    /\ trace' = trace
    /\ exhausted' = exhausted
    /\ calls_after_end' = calls_after_end

\* C38: drop_current_vertex changes nothing but the dropped flag of the top
\* frame: the length and order of the stack, the vertex, cursor and
\* current_neighbour of the frame, the explored set and the output queue stay
\* as they are; on an empty stack it changes nothing, and a second call adds
\* nothing to the first.
C38_DropSetsOnlyTheFlag ==
    /\ [](object = "tree" => DropInThisState)
    /\ [][(object = "tree" /\ DropStep) =>
             /\ OnlyTheTopFlagDiffers(enumeration, enumeration')
             /\ explored' = explored /\ vertices' = vertices
             /\ graph' = graph /\ start' = start]_vars

\* A frame that is at its second neighbour has been dropped with frames
\* below it, while an entry was waiting in the output queue.
C38_Witness ==
    /\ object = "tree"
    /\ Len(enumeration.stack) >= 2
    /\ Last(enumeration.stack).dropped
    /\ Last(enumeration.stack).neighbours >= 2
    /\ enumeration.output_queue # <<>>

(***************************************************************************)
(* The events of the graph-scoped traversal nest like brackets             *)
(***************************************************************************)

\* The vertex of the last BeginVertex among the open items, if there is one.
InnermostVertex(open) ==
    LET at == {i \in 1..Len(open) : open[i][1] = "BeginVertex"}
    IN IF at = {} THEN None
       ELSE Some(open[CHOOSE i \in at : \A j \in at : j <= i][2])

\* Reading the event as a bracket after the open items `before`: whether it
\* fits, and the items open after it.
Bracket(before, entry) ==
    CASE entry[1] = "BeginVertex" ->
             [ok |-> before.ok, open |-> Append(before.open, entry)]
      [] entry[1] = "BeginEdge" ->
             [ok |-> before.ok /\ InnermostVertex(before.open) = Some(entry[2]),
              open |-> Append(before.open, entry)]
      [] entry[1] = "EndVertex" ->
             [ok |-> /\ before.ok
                     /\ before.open # <<>>
                     /\ Last(before.open) = BeginVertex(entry[2])
                     /\ \A i \in 1..Len(before.open) :
                            ~(before.open[i][1] = "BeginEdge"
                              /\ before.open[i][2] = entry[2]),
              open |-> Front(before.open)]
      [] entry[1] = "EndEdge" ->
             [ok |-> /\ before.ok
                     /\ before.open # <<>>
                     /\ Last(before.open) = BeginEdge(entry[2], entry[3])
                     /\ InnermostVertex(Front(before.open)) = Some(entry[2]),
              open |-> Front(before.open)]

\* The first n events read as brackets.
RECURSIVE Nesting(_)
Nesting(n) ==
    IF n = 0
    THEN [ok |-> TRUE, open |-> <<>>]
    ELSE Only({Bracket(before, trace[n]) : before \in {Nesting(n - 1)}})

\* C39: the events of the graph-scoped traversal are well nested, also around
\* suppressed vertices: with BeginVertex and BeginEdge opening and EndVertex
\* and EndEdge closing, every closing event closes the item opened last among
\* those still open, EndVertex(v) comes only when no edge of v is open, every
\* BeginEdge(u, v) and EndEdge(u, v) comes while u is the innermost open
\* vertex, and nothing is open once the traversal is exhausted.
C39_EventsNestLikeBrackets ==
    [](object = "graph" =>
          \A r \in {Nesting(Len(trace))} :
              /\ r.ok
              /\ exhausted => r.open = <<>>)

\* The traversal is exhausted; an edge into a vertex of an earlier tree was
\* begun and ended while two vertices and an edge between them were open.
C39_Witness ==
    /\ object = "graph"
    /\ exhausted
    /\ \E i \in CrossTreeEdges : Len(Nesting(i).open) >= 4

(***************************************************************************)
(* The parent links form a forest                                          *)
(***************************************************************************)

\* The root reached from v along at most k DecendentOf links, if there is one.
RECURSIVE RootWithin(_, _)
RootWithin(v, k) ==
    IF v \notin DOMAIN union_find THEN None
    ELSE IF union_find[v][1] = "TreeRoot" THEN Some(v)
    ELSE IF k = 0 THEN None
    ELSE RootWithin(union_find[v][2], k - 1)

\* The longest path a forest over the given vertices can have.
LongestPath == Max(Cardinality(DOMAIN union_find), 1) - 1

\* The vertices that reach the root r.
MembersOf(r) == {v \in DOMAIN union_find : RootWithin(v, LongestPath) = Some(r)}

\* The roots.
Roots == {r \in DOMAIN union_find : union_find[r][1] = "TreeRoot"}

RECURSIVE SumOfSizes(_)
SumOfSizes(roots) ==
    IF roots = {} THEN 0
    ELSE LET r == CHOOSE x \in roots : TRUE
         IN union_find[r][2] + SumOfSizes(roots \ {r})

\* C40: after any sequence of unions the DecendentOf links form a forest
\* without cycles, so that find comes to a root for every vertex given at
\* construction; the size at each TreeRoot is the number of vertices whose
\* find returns that root, and the sizes of all roots add up to the number
\* of vertices.
C40_ParentLinksFormAForest ==
    object = "union_find" =>
        /\ DOMAIN union_find = given.vertices
        /\ \A v \in DOMAIN union_find : RootWithin(v, LongestPath) # None
        /\ \A v \in DOMAIN union_find :
               /\ find(union_find, v).ok
               /\ Some(find(union_find, v).value.id) = RootWithin(v, LongestPath)
        /\ \A r \in Roots :
               union_find[r][2] =
                   Cardinality({v \in DOMAIN union_find : find(union_find, v).value.id = r})
        /\ SumOfSizes(Roots) = Cardinality(DOMAIN union_find)

\* Four vertices are in one tree in which a vertex hangs under a vertex that
\* is not the root.
C40_Witness ==
    /\ object = "union_find"
    /\ \E r \in Roots : union_find[r][2] = 4
    /\ \E v \in DOMAIN union_find :
          /\ union_find[v][1] = "DecendentOf"
          /\ union_find[union_find[v][2]][1] = "DecendentOf"

====
